---- MODULE Spec2Model ----
(***************************************************************************)
(* sgrp: conversion of text with ANSI SGR escape sequences to HTML spans.  *)
(* The model follows the last revision of the library (Parser,             *)
(* SGRToStringTransformer, Style, the escaping helpers).                   *)
(*                                                                         *)
(* A JavaScript string is modelled in two ways:                            *)
(*   - input text (chunks, csiArgs, the argument of onText) is a sequence  *)
(*     of characters, each character being a one-element name: a printable *)
(*     character is itself ("a", "[", "1"), a control character is named   *)
(*     by its JavaScript escape ("\\x1B" is the single character ESC);     *)
(*   - output text (what is enqueued to the controller) is a TLA+ string,  *)
(*     built by concatenation.                                             *)
(* Indices are 0-based as in the source; slice(x, a, b) is x.slice(a, b).  *)
(***************************************************************************)
EXTENDS Integers, Sequences, FiniteSets, TLC

(***************************************************************************)
(* Bounds of the model.                                                    *)
(***************************************************************************)
\* longest list of segments an input text is made of
MaxSegs == 3
\* longest list of segments that follows the long CSI prefix in an input
MaxTail == 2
\* largest desiredSize a pull of the source sees (null = the whole rest)
MaxChunk == 2
\* parseInt saturates here: every larger value behaves the same in the code
NumCap == 300

(***************************************************************************)
(* Characters.                                                             *)
(***************************************************************************)
ESC == "\\x1B"

Undefined == "undefined"

Null == "null"

DigitChars == {"0", "1", "2", "3", "4", "5", "6", "7", "8", "9"}

\* the character class [0-9;] of the two regular expressions on csiArgs
ParamClass == DigitChars \cup {";"}

\* the character class [<>&'"]
HtmlClass == {"<", ">", "&", "'", "\""}

\* the class without ESC: [\x00-\x07\x0E-\x1A\x1C-\x1F]
ControlClass_withoutEsc ==
    {"\\x00", "\\x01", "\\x02", "\\x03", "\\x04", "\\x05", "\\x06", "\\x07",
     "\\x0E", "\\x0F", "\\x10", "\\x11", "\\x12", "\\x13", "\\x14", "\\x15",
     "\\x16", "\\x17", "\\x18", "\\x19", "\\x1A", "\\x1C", "\\x1D",
     "\\x1E", "\\x1F"}

\* the character class [\x00-\x07\x0E-\x1F]
ControlClass ==
    {"\\x00", "\\x01", "\\x02", "\\x03", "\\x04", "\\x05", "\\x06", "\\x07",
     "\\x0E", "\\x0F", "\\x10", "\\x11", "\\x12", "\\x13", "\\x14", "\\x15",
     "\\x16", "\\x17", "\\x18", "\\x19", "\\x1A", "\\x1B", "\\x1C", "\\x1D",
     "\\x1E", "\\x1F"}

escapes ==
    ("<" :> "&lt;") @@ (">" :> "&gt;") @@ ("&" :> "&amp;") @@
    ("'" :> "&#39;") @@ ("\"" :> "&quot;") @@
    ("\\x00" :> "\\u2400") @@ ("\\x01" :> "\\u2401") @@ ("\\x02" :> "\\u2402") @@
    ("\\x03" :> "\\u2403") @@ ("\\x04" :> "\\u2404") @@ ("\\x05" :> "\\u2405") @@
    ("\\x06" :> "\\u2406") @@ ("\\x07" :> "\\u2407") @@
    ("\\x0E" :> "\\u240E") @@ ("\\x0F" :> "\\u240F") @@ ("\\x10" :> "\\u2410") @@
    ("\\x11" :> "\\u2411") @@ ("\\x12" :> "\\u2412") @@ ("\\x13" :> "\\u2413") @@
    ("\\x14" :> "\\u2414") @@ ("\\x15" :> "\\u2415") @@ ("\\x16" :> "\\u2416") @@
    ("\\x17" :> "\\u2417") @@ ("\\x18" :> "\\u2418") @@ ("\\x19" :> "\\u2419") @@
    ("\\x1A" :> "\\u241A") @@ ("\\x1B" :> "\\u241B") @@ ("\\x1C" :> "\\u241C") @@
    ("\\x1D" :> "\\u241D") @@ ("\\x1E" :> "\\u241E") @@ ("\\x1F" :> "\\u241F")

(***************************************************************************)
(* String helpers of the JavaScript runtime, as the code uses them.        *)
(***************************************************************************)
\* x.slice(a, b) for 0 <= a, b
slice(x, a, b) == SubSeq(x, a + 1, b)

\* x.slice(a)
sliceFrom(x, a) == SubSeq(x, a + 1, Len(x))

\* index of the first character of x that is in (inClass) or not in
\* (~inClass) the class, -1 when there is none: indexOf / search
RECURSIVE firstIndex(_, _, _, _)
firstIndex(x, class, inClass, from) ==
    IF from >= Len(x) THEN -1
    ELSE IF (x[from + 1] \in class) = inClass THEN from
    ELSE firstIndex(x, class, inClass, from + 1)

\* x.replaceAll(/[class]/g, (c) => escapes[c]), as an output string
RECURSIVE replaceAll(_, _)
replaceAll(x, class) ==
    IF x = <<>> THEN ""
    ELSE (IF Head(x) \in class THEN escapes[Head(x)] ELSE Head(x))
         \o replaceAll(Tail(x), class)

escapeControl(x) == replaceAll(x, ControlClass)

\* escapeControlHtml replacing the control characters only
escapeControlHtml_controlOnly(x) == replaceAll(x, ControlClass)

escapeControlHtml(x) == replaceAll(x, ControlClass \cup HtmlClass)

escapeHtml(x) == replaceAll(x, HtmlClass)

\* x.split(";")
RECURSIVE split(_)
split(x) ==
    LET k == firstIndex(x, {";"}, TRUE, 0)
    IN  IF k < 0 THEN <<x>>
        ELSE <<slice(x, 0, k)>> \o split(sliceFrom(x, k + 1))

DigitVal ==
    ("0" :> 0) @@ ("1" :> 1) @@ ("2" :> 2) @@ ("3" :> 3) @@ ("4" :> 4) @@
    ("5" :> 5) @@ ("6" :> 6) @@ ("7" :> 7) @@ ("8" :> 8) @@ ("9" :> 9)

\* parseInt(x, 10) of a non-empty string of digits; values above NumCap are
\* all read as NumCap (no code path tells two such values apart)
RECURSIVE parseIntFrom(_, _)
parseIntFrom(x, acc) ==
    IF x = <<>> THEN acc
    ELSE LET v == acc * 10 + DigitVal[Head(x)]
         IN  parseIntFrom(Tail(x), IF v > NumCap THEN NumCap ELSE v)

\* the number kept in one byte
parseInt_truncatesToByte(x) == parseIntFrom(x, 0) % 256

parseInt(x) == parseIntFrom(x, 0)

\* Number.isSafeInteger: every modelled number is an integer; the
\* saturated value NumCap stands for all larger ones, exact or not
isSafeInteger(x) == x \in Int

\* isU8Number without the upper limit
isU8Number_unbounded(x) == x >= 0 /\ isSafeInteger(x)

isU8Number(x) == x >= 0 /\ x <= 255 /\ isSafeInteger(x)

(***************************************************************************)
(* Palette.                                                                *)
(***************************************************************************)
\* the colour names with red and green in each other's place
ColorNames_swapped ==
    <<"black", "green", "red", "yellow", "blue", "magenta", "cyan", "white">>

ColorNames == <<"black", "red", "green", "yellow", "blue", "magenta", "cyan", "white">>

defaultPalette ==
    [standard |->
        [black |-> "#0c0c0c", red |-> "#c50f1f", green |-> "#13a10e",
         yellow |-> "#c19c00", blue |-> "#0037da", magenta |-> "#881798",
         cyan |-> "#3a96dd", white |-> "#cccccc"],
     bright |->
        [black |-> "#767676", red |-> "#e74856", green |-> "#16c60c",
         yellow |-> "#f9f1a5", blue |-> "#3b78ff", magenta |-> "#b4009e",
         cyan |-> "#61d6d6", white |-> "#f2f2f2"]]

\* an object whose properties may be absent is a function on the names it
\* has; an object that is itself undefined has none
NoObject == <<>>

\* a?.name || ... taken for undefined only: null is kept as the colour
resolveColors_keepsNull(a, b) ==
    [n \in DOMAIN b |->
        IF n \notin DOMAIN a THEN b[n]
        ELSE IF a[n] = Undefined THEN b[n]
        ELSE a[n]]

\* a?.name ?? b.name : a property of a holds a string, Undefined or Null
resolveColors(a, b) ==
    [n \in DOMAIN b |->
        IF n \notin DOMAIN a THEN b[n]
        ELSE IF a[n] \in {Undefined, Null} THEN b[n]
        ELSE a[n]]

\* a?.standard, a?.bright
resolvePalette(a, b) ==
    [standard |->
        resolveColors(IF "standard" \in DOMAIN a THEN a.standard ELSE NoObject,
                      b.standard),
     bright |->
        resolveColors(IF "bright" \in DOMAIN a THEN a.bright ELSE NoObject,
                      b.bright)]

(***************************************************************************)
(* Style.                                                                  *)
(***************************************************************************)
NewStyle ==
    [fontWeight |-> "", fontStyle |-> "",
     textDecorationUnderline |-> FALSE, textDecorationLineThrough |-> FALSE,
     color |-> "", backgroundColor |-> ""]

\* copy that leaves textDecorationLineThrough at its initial value
copy_forgetsLineThrough(s) ==
    [fontWeight |-> s.fontWeight, fontStyle |-> s.fontStyle,
     textDecorationUnderline |-> s.textDecorationUnderline,
     textDecorationLineThrough |-> FALSE,
     color |-> s.color, backgroundColor |-> s.backgroundColor]

copy(s) ==
    [fontWeight |-> s.fontWeight, fontStyle |-> s.fontStyle,
     textDecorationUnderline |-> s.textDecorationUnderline,
     textDecorationLineThrough |-> s.textDecorationLineThrough,
     color |-> s.color, backgroundColor |-> s.backgroundColor]

\* equals comparing the two objects' identity: the computed Style is always
\* a new object
equals_byIdentity(s, o) == FALSE

\* equals comparing the font weight only
equals_weightOnly(s, o) == s.fontWeight = o.fontWeight

equals(s, o) ==
    /\ s.fontWeight = o.fontWeight
    /\ s.fontStyle = o.fontStyle
    /\ s.textDecorationUnderline = o.textDecorationUnderline
    /\ s.textDecorationLineThrough = o.textDecorationLineThrough
    /\ s.color = o.color
    /\ s.backgroundColor = o.backgroundColor

isEmpty(s) ==
    /\ s.fontWeight = ""
    /\ s.fontStyle = ""
    /\ ~s.textDecorationUnderline
    /\ ~s.textDecorationLineThrough
    /\ s.color = ""
    /\ s.backgroundColor = ""

\* textDecoration that gives line-through alone when both are set
textDecoration_oneValue(s) ==
    IF s.textDecorationLineThrough THEN "line-through"
    ELSE IF s.textDecorationUnderline THEN "underline"
    ELSE ""

textDecoration(s) ==
    IF s.textDecorationUnderline /\ s.textDecorationLineThrough
    THEN "underline line-through"
    ELSE IF s.textDecorationUnderline THEN "underline"
    ELSE IF s.textDecorationLineThrough THEN "line-through"
    ELSE ""

\* a string with the characters of the class [<>&'"] replaced by entities
RECURSIVE entities(_)
entities(str) ==
    IF str = "" THEN ""
    ELSE (IF SubSeq(str, 1, 1) \in HtmlClass THEN escapes[SubSeq(str, 1, 1)]
          ELSE SubSeq(str, 1, 1))
         \o entities(SubSeq(str, 2, Len(str)))

\* toCssStyle escaping the two colour values
toCssStyle_escapesColors(s) ==
    "style=\""
    \o (IF s.fontWeight # "" THEN "font-weight:" \o s.fontWeight \o ";" ELSE "")
    \o (IF s.fontStyle # "" THEN "font-style:" \o s.fontStyle \o ";" ELSE "")
    \o (IF s.textDecorationUnderline \/ s.textDecorationLineThrough
        THEN "text-decoration:" \o textDecoration(s) \o ";" ELSE "")
    \o (IF s.color # "" THEN "color:" \o entities(s.color) \o ";" ELSE "")
    \o (IF s.backgroundColor # ""
        THEN "background-color:" \o entities(s.backgroundColor) \o ";" ELSE "")
    \o "\""

toCssStyle(s) ==
    "style=\""
    \o (IF s.fontWeight # "" THEN "font-weight:" \o s.fontWeight \o ";" ELSE "")
    \o (IF s.fontStyle # "" THEN "font-style:" \o s.fontStyle \o ";" ELSE "")
    \o (IF s.textDecorationUnderline \/ s.textDecorationLineThrough
        THEN "text-decoration:" \o textDecoration(s) \o ";" ELSE "")
    \o (IF s.color # "" THEN "color:" \o s.color \o ";" ELSE "")
    \o (IF s.backgroundColor # "" THEN "background-color:" \o s.backgroundColor \o ";"
        ELSE "")
    \o "\""


(***************************************************************************)
(* State of one SGRToStringTransformer fed by one stream.                  *)
(***************************************************************************)
VARIABLES
    text,                \* the input text the stream delivers
    offset,              \* how much of text has been delivered
    closed,              \* whether the stream has ended (flush was called)
    options,             \* the options the constructor is given
    palette,             \* Parser.#palette
    escapeControlCodes,  \* options.escapeControlCodes, which picks #escaper
    state,               \* Parser.#state
    csiArgs,             \* Parser.#csiArgs
    csiCommand,          \* Parser.#csiCommand
    style,               \* Parser.#style
    inSpan,              \* SGRToStringTransformer.#inSpan
    heap,                \* the Style objects created so far, in order of
                         \* creation, each with the present values of its fields
    published,           \* the objects passed to onStyleChange, in order
    out,                 \* the strings enqueued to the controller, in order
    controller,          \* the calls a StringChunkSource made on the controller
                         \* of its own stream, in order (recorded where the
                         \* source is looked at on its own, SourceSpec)
    calls                \* the parser's log, in order: each call of onText and
                         \* of onStyleChange, and each SGR sequence handleSgr
                         \* interprets (with its parameter bytes)

vars ==
    <<text, offset, closed, options, palette, escapeControlCodes, state, csiArgs,
      csiCommand, style, heap, published, inSpan, out, controller, calls>>

\* the mutable part of the transformer, as the methods below update it
This ==
    [state |-> state, csiArgs |-> csiArgs, csiCommand |-> csiCommand,
     style |-> style, heap |-> heap, published |-> published,
     inSpan |-> inSpan, out |-> out, calls |-> calls]

\* a transformer right after construction
Fresh ==
    [state |-> "Text", csiArgs |-> <<>>, csiCommand |-> <<>>,
     style |-> NewStyle, heap |-> <<NewStyle>>, published |-> <<>>,
     inSpan |-> FALSE, out |-> <<>>, calls |-> <<>>]

csiArgLenLimit == 64

(***************************************************************************)
(* SGRToStringTransformer: the two handlers.                               *)
(***************************************************************************)
\* the escaper chosen without looking at the option
escaper_always(t) == escapeControlHtml(t)

escaper(t) == IF escapeControlCodes THEN escapeControlHtml(t) ELSE escapeHtml(t)

enqueue(p, str) == [p EXCEPT !.out = Append(@, str)]

\* an entry of the log: op, its text argument, its Style argument
Call(op, t, s) == [op |-> op, t |-> t, s |-> s]

log(p, call) == [p EXCEPT !.calls = Append(@, call)]

onText(p, t) == enqueue(log(p, Call("onText", t, NewStyle)), escaper(t))

\* onStyleChange opening the new span without closing the open one
onStyleChange_keepsOpen(p, s) ==
    LET logged == log(p, Call("onStyleChange", <<>>, s))
    IN  IF ~isEmpty(s)
        THEN [enqueue(logged, "<span " \o toCssStyle(s) \o ">") EXCEPT !.inSpan = TRUE]
        ELSE IF logged.inSpan
        THEN [enqueue(logged, "</span>") EXCEPT !.inSpan = FALSE]
        ELSE logged

\* onStyleChange opening a span for the empty Style too
onStyleChange_spanForEmpty(p, s) ==
    LET logged == log(p, Call("onStyleChange", <<>>, s))
        shut == IF logged.inSpan
                THEN [enqueue(logged, "</span>") EXCEPT !.inSpan = FALSE]
                ELSE logged
    IN  [enqueue(shut, "<span " \o toCssStyle(s) \o ">") EXCEPT !.inSpan = TRUE]

onStyleChange(p, s) ==
    LET logged == log(p, Call("onStyleChange", <<>>, s))
        shut == IF logged.inSpan
                THEN [enqueue(logged, "</span>") EXCEPT !.inSpan = FALSE]
                ELSE logged
    IN  IF ~isEmpty(s)
        THEN [enqueue(shut, "<span " \o toCssStyle(s) \o ">") EXCEPT !.inSpan = TRUE]
        ELSE shut

(***************************************************************************)
(* Parser.                                                                 *)
(***************************************************************************)
\* dumpUnknownCsi leaving the final byte out of the text
dumpUnknownCsi_withoutCommand(p) ==
    [onText(p, <<ESC, "[">> \o p.csiArgs)
        EXCEPT !.csiArgs = <<>>, !.csiCommand = <<>>, !.state = "Text"]

\* dumpUnknownCsi leaving the parameter bytes in the buffer
dumpUnknownCsi_keepsBuffer(p) ==
    [onText(p, <<ESC, "[">> \o p.csiArgs \o p.csiCommand)
        EXCEPT !.csiCommand = <<>>, !.state = "Text"]

\* dumpUnknownCsi starting over with a new Style as well
dumpUnknownCsi_resetsStyle(p) ==
    [onText(p, <<ESC, "[">> \o p.csiArgs \o p.csiCommand)
        EXCEPT !.csiArgs = <<>>, !.csiCommand = <<>>, !.state = "Text",
               !.style = NewStyle]

dumpUnknownCsi(p) ==
    [onText(p, <<ESC, "[">> \o p.csiArgs \o p.csiCommand)
        EXCEPT !.csiArgs = <<>>, !.csiCommand = <<>>, !.state = "Text"]

\* parameters.at(i): -1 stands for undefined
UndefinedNumber == -1

at(parameters, i) ==
    IF i < Len(parameters) THEN parameters[i + 1] ELSE UndefinedNumber

\* the components written in the order blue, green, red
rgb_reversed(r, g, b) ==
    "rgb(" \o ToString(b) \o "," \o ToString(g) \o "," \o ToString(r) \o ")"

rgb(r, g, b) == "rgb(" \o ToString(r) \o "," \o ToString(g) \o "," \o ToString(b) \o ")"

\* parseCustomColor with two possible slips: the colour cube read with
\* blue as the most significant digit, and the index of the selector
\* returned in place of the index of the last component
parseCustomColor_with(parameters, i, swapCube, keepIndex) ==
    LET colorspace == at(parameters, i + 1)
        last(n) == IF keepIndex THEN i ELSE i + n
    IN  IF colorspace = UndefinedNumber THEN <<>>
        ELSE IF colorspace = 2 THEN
            LET r == at(parameters, i + 2)
                g == at(parameters, i + 3)
                b == at(parameters, i + 4)
            IN  IF r = UndefinedNumber \/ g = UndefinedNumber \/ b = UndefinedNumber
                THEN <<>>
                ELSE IF ~isU8Number(r) \/ ~isU8Number(g) \/ ~isU8Number(b) THEN <<>>
                ELSE <<last(4), rgb(r, g, b)>>
        ELSE IF colorspace = 5 THEN
            LET v == at(parameters, i + 2)
                lo == ((v - 16) % 6) * 51
                mid == (((v - 16) \div 6) % 6) * 51
                hi == (((v - 16) \div 36) % 6) * 51
            IN  IF v = UndefinedNumber THEN <<>>
                ELSE IF v \in 0..7 THEN <<last(2), palette.standard[ColorNames[v + 1]]>>
                ELSE IF v \in 8..15 THEN <<last(2), palette.bright[ColorNames[v - 7]]>>
                ELSE IF v >= 16 /\ v <= 231 THEN
                    <<last(2), IF swapCube THEN rgb(lo, mid, hi) ELSE rgb(hi, mid, lo)>>
                ELSE IF v >= 232 /\ v <= 255 THEN
                    <<last(2), rgb((v - 232) * 11, (v - 232) * 11, (v - 232) * 11)>>
                ELSE <<>>
        ELSE <<>>

parseCustomColor_cubeSwapped(parameters, i) ==
    parseCustomColor_with(parameters, i, TRUE, FALSE)

parseCustomColor_indexKept(parameters, i) ==
    parseCustomColor_with(parameters, i, FALSE, TRUE)

\* the result is <<>> for null, <<i, color>> otherwise
parseCustomColor(parameters, i) ==
    LET colorspace == at(parameters, i + 1)
    IN  IF colorspace = UndefinedNumber THEN <<>>
        ELSE IF colorspace = 2 THEN
            LET r == at(parameters, i + 2)
                g == at(parameters, i + 3)
                b == at(parameters, i + 4)
            IN  IF r = UndefinedNumber \/ g = UndefinedNumber \/ b = UndefinedNumber
                THEN <<>>
                ELSE IF ~isU8Number(r) THEN <<>>
                ELSE IF ~isU8Number(g) THEN <<>>
                ELSE IF ~isU8Number(b) THEN <<>>
                ELSE <<i + 4, rgb(r, g, b)>>
        ELSE IF colorspace = 5 THEN
            LET v == at(parameters, i + 2)
            IN  IF v = UndefinedNumber THEN <<>>
                ELSE IF v \in 0..7 THEN <<i + 2, palette.standard[ColorNames[v + 1]]>>
                ELSE IF v \in 8..15 THEN <<i + 2, palette.bright[ColorNames[v - 7]]>>
                ELSE IF v >= 16 /\ v <= 231 /\ isSafeInteger(v) THEN
                    LET rest0 == v - 16
                        b == (rest0 % 6) * 51
                        rest1 == rest0 \div 6
                        g == (rest1 % 6) * 51
                        rest2 == rest1 \div 6
                        r == (rest2 % 6) * 51
                    IN  <<i + 2, rgb(r, g, b)>>
                ELSE IF v >= 232 /\ v <= 255 /\ isSafeInteger(v) THEN
                    LET c == (v - 232) * 11
                    IN  <<i + 2, rgb(c, c, c)>>
                ELSE <<>>
        ELSE <<>>

\* what parseCustomColor writes to console.error when it returns null, ""
\* when it returns a colour
parseCustomColorError(parameters, i) ==
    LET mainParameter == ToString(parameters[i + 1])
        colorspace == at(parameters, i + 1)
    IN  IF colorspace = UndefinedNumber
        THEN "[sgrp]: Missing colorspace parameter (2 or 5) after " \o mainParameter
        ELSE IF colorspace = 2 THEN
            LET r == at(parameters, i + 2)
                g == at(parameters, i + 3)
                b == at(parameters, i + 4)
            IN  IF r = UndefinedNumber \/ g = UndefinedNumber \/ b = UndefinedNumber
                THEN "[sgrp] Missing RGB values after SGR " \o mainParameter \o ";2"
                ELSE IF ~isU8Number(r)
                THEN "[sgrp] Invalid red component: " \o ToString(r)
                ELSE IF ~isU8Number(g)
                THEN "[sgrp] Invalid green component: " \o ToString(r)
                ELSE IF ~isU8Number(b)
                THEN "[sgrp] Invalid blue component: " \o ToString(r)
                ELSE ""
        ELSE IF colorspace = 5 THEN
            LET v == at(parameters, i + 2)
            IN  IF v = UndefinedNumber
                THEN "[sgrp] Missing parameter after SGR " \o mainParameter \o ";5"
                ELSE IF parseCustomColor(parameters, i) = <<>>
                THEN "[sgrp] Invalid parameter after SGR " \o mainParameter \o ";5: "
                     \o ToString(v)
                ELSE ""
        ELSE "[sgrp]: Unknown colorspace " \o ToString(colorspace) \o " after SGR "
             \o mainParameter

\* the loop of parseSgrParameters from index i on
RECURSIVE parseSgrFrom(_, _, _)
parseSgrFrom(parameters, i, newStyle) ==
    IF i >= Len(parameters) THEN newStyle
    ELSE
        LET v == parameters[i + 1]
            next(st) == parseSgrFrom(parameters, i + 1, st)
        IN  CASE v = 0 ->
                    next([newStyle EXCEPT !.fontWeight = "", !.fontStyle = "",
                                          !.textDecorationLineThrough = FALSE,
                                          !.textDecorationUnderline = FALSE,
                                          !.color = "", !.backgroundColor = ""])
              [] v = 1 -> next([newStyle EXCEPT !.fontWeight = "bolder"])
              [] v = 2 -> next([newStyle EXCEPT !.fontWeight = "lighter"])
              [] v = 3 -> next([newStyle EXCEPT !.fontStyle = "italic"])
              [] v = 4 -> next([newStyle EXCEPT !.textDecorationUnderline = TRUE])
              [] v = 9 -> next([newStyle EXCEPT !.textDecorationLineThrough = TRUE])
              [] v = 22 -> next([newStyle EXCEPT !.fontWeight = ""])
              [] v = 23 -> next([newStyle EXCEPT !.fontStyle = ""])
              [] v = 24 -> next([newStyle EXCEPT !.textDecorationUnderline = FALSE])
              [] v = 29 -> next([newStyle EXCEPT !.textDecorationLineThrough = FALSE])
              [] v \in 30..37 ->
                    next([newStyle EXCEPT !.color = palette.standard[ColorNames[v - 29]]])
              [] v = 38 ->
                    LET result == parseCustomColor(parameters, i)
                    IN  IF result = <<>> THEN newStyle
                        ELSE parseSgrFrom(parameters, result[1] + 1,
                                          [newStyle EXCEPT !.color = result[2]])
              [] v = 39 -> next([newStyle EXCEPT !.color = ""])
              [] v \in 40..47 ->
                    next([newStyle EXCEPT
                            !.backgroundColor = palette.standard[ColorNames[v - 39]]])
              [] v = 48 ->
                    LET result == parseCustomColor(parameters, i)
                    IN  IF result = <<>> THEN newStyle
                        ELSE parseSgrFrom(parameters, result[1] + 1,
                                          [newStyle EXCEPT !.backgroundColor = result[2]])
              [] v = 49 -> next([newStyle EXCEPT !.backgroundColor = ""])
              [] v \in 90..97 ->
                    next([newStyle EXCEPT !.color = palette.bright[ColorNames[v - 89]]])
              [] v \in 100..107 ->
                    next([newStyle EXCEPT
                            !.backgroundColor = palette.bright[ColorNames[v - 99]]])
              [] OTHER -> next(newStyle)

\* the parameters applied to a new Style instead of a copy of the current one
parseSgrParameters_fromScratch(p, parameters) == parseSgrFrom(parameters, 0, NewStyle)

parseSgrParameters(p, parameters) == parseSgrFrom(parameters, 0, copy(p.style))

\* empty fields, and an empty buffer, give no parameter at all
sgrParameters_skipsEmpty(args) ==
    LET parts == SelectSeq(split(args), LAMBDA part : Len(part) > 0)
    IN  [k \in 1..Len(parts) |-> parseInt(parts[k])]

\* the fields parsed without the test for an empty one: parseInt of the
\* empty string is NaN, a number that equals none (-2 here)
sgrParameters_emptyIsNaN(args) ==
    IF Len(args) > 0
    THEN LET parts == split(args)
         IN  [k \in 1..Len(parts) |->
                IF Len(parts[k]) > 0 THEN parseInt(parts[k]) ELSE 0 - 2]
    ELSE <<0>>

\* csiArgs.split(";").map((i) => i.length > 0 ? parseInt(i, 10) : 0), or [0]
sgrParameters(args) ==
    IF Len(args) > 0
    THEN LET parts == split(args)
         IN  [k \in 1..Len(parts) |->
                IF Len(parts[k]) > 0 THEN parseInt(parts[k]) ELSE 0]
    ELSE <<0>>

\* the object #style refers to: the one last assigned to it (each is passed
\* to onStyleChange right away), the Style of the field initialiser before
styleObject(p) ==
    IF p.published = <<>> THEN 1 ELSE p.published[Len(p.published)]

\* parseSgrParameters keeping one scratch Style: the copy it made last time
\* is assigned to again
newStyleObject_reusesLast(p) ==
    IF Len(p.heap) > 1 THEN Len(p.heap) ELSE Len(p.heap) + 1

\* the object parseSgrParameters assigns to: this.#style.copy(), a new one
newStyleObject(p) == Len(p.heap) + 1

\* the fields of an object assigned; an object not yet in the heap is created
assign(objects, object, value) ==
    IF object > Len(objects) THEN Append(objects, value)
    ELSE [objects EXCEPT ![object] = value]

handleSgr(p) ==
    IF \E k \in 1..Len(p.csiArgs) : p.csiArgs[k] \notin ParamClass
    THEN dumpUnknownCsi(p)
    ELSE
        LET newStyle == parseSgrParameters(p, sgrParameters(p.csiArgs))
            object == newStyleObject(p)
            assigned == [p EXCEPT !.heap = assign(@, object, newStyle)]
            seen == log(assigned, Call("handleSgr", p.csiArgs, NewStyle))
            q == IF ~equals(seen.heap[styleObject(seen)], seen.heap[object])
                 THEN onStyleChange([seen EXCEPT !.style = newStyle,
                                                 !.published = Append(@, object)],
                                    newStyle)
                 ELSE seen
        IN  [q EXCEPT !.csiArgs = <<>>, !.csiCommand = <<>>, !.state = "Text"]

\* each handler returns the updated transformer and the rest of the chunk
\* handleText without the onText call for the text before the ESC
handleText_skipsPrefix(p, chunk) ==
    LET escIdx == firstIndex(chunk, {ESC}, TRUE, 0)
    IN  IF escIdx < 0
        THEN [this |-> onText(p, chunk), chunk |-> <<>>]
        ELSE [this |-> [p EXCEPT !.state = "Esc"],
              chunk |-> sliceFrom(chunk, escIdx + 1)]

handleText(p, chunk) ==
    LET escIdx == firstIndex(chunk, {ESC}, TRUE, 0)
    IN  IF escIdx < 0
        THEN [this |-> onText(p, chunk), chunk |-> <<>>]
        ELSE [this |-> [onText(p, slice(chunk, 0, escIdx)) EXCEPT !.state = "Esc"],
              chunk |-> sliceFrom(chunk, escIdx + 1)]

\* handleEsc without the onText call for the ESC that opened no CSI sequence
handleEsc_dropsEsc(p, chunk) ==
    IF chunk[1] = "["
    THEN [this |-> [p EXCEPT !.state = "Csi"], chunk |-> sliceFrom(chunk, 1)]
    ELSE [this |-> [p EXCEPT !.state = "Text"], chunk |-> chunk]

\* handleEsc consuming the character that follows the ESC
handleEsc_consumesNext(p, chunk) ==
    IF chunk[1] = "["
    THEN [this |-> [p EXCEPT !.state = "Csi"], chunk |-> sliceFrom(chunk, 1)]
    ELSE [this |-> [onText(p, <<ESC>>) EXCEPT !.state = "Text"],
          chunk |-> sliceFrom(chunk, 1)]

\* handleEsc leaving for Csi when the ESC opened no CSI sequence
handleEsc_toCsi(p, chunk) ==
    IF chunk[1] = "["
    THEN [this |-> [p EXCEPT !.state = "Csi"], chunk |-> sliceFrom(chunk, 1)]
    ELSE [this |-> [onText(p, <<ESC>>) EXCEPT !.state = "Csi"], chunk |-> chunk]

handleEsc(p, chunk) ==
    IF chunk[1] = "["
    THEN [this |-> [p EXCEPT !.state = "Csi"], chunk |-> sliceFrom(chunk, 1)]
    ELSE [this |-> [onText(p, <<ESC>>) EXCEPT !.state = "Text"], chunk |-> chunk]

\* the rest of handleCsi once the parameter bytes fit
csiAccept(p, chunk, commandIdx, argsChunk) ==
    LET q == [p EXCEPT !.csiArgs = @ \o argsChunk]
    IN  IF commandIdx >= 0
        THEN LET c == [q EXCEPT !.csiCommand = <<chunk[commandIdx + 1]>>]
             IN  [this |-> IF c.csiCommand = <<"m">>
                           THEN handleSgr(c)
                           ELSE dumpUnknownCsi(c),
                  chunk |-> sliceFrom(chunk, commandIdx + 1)]
        ELSE [this |-> q, chunk |-> <<>>]

\* handleCsi with spaceLeft computed without the bytes already buffered
handleCsi_ignoresBuffered(p, chunk) ==
    LET spaceLeft == csiArgLenLimit
        commandIdx == firstIndex(chunk, ParamClass, FALSE, 0)
        argsChunk == IF commandIdx < 0 THEN chunk ELSE slice(chunk, 0, commandIdx)
    IN  IF Len(argsChunk) > spaceLeft
        THEN [this |-> dumpUnknownCsi(p), chunk |-> chunk]
        ELSE csiAccept(p, chunk, commandIdx, argsChunk)

\* handleCsi giving up one byte early (>= for >)
handleCsi_offByOne(p, chunk) ==
    LET spaceLeft == csiArgLenLimit - Len(p.csiArgs)
        commandIdx == firstIndex(chunk, ParamClass, FALSE, 0)
        argsChunk == IF commandIdx < 0 THEN chunk ELSE slice(chunk, 0, commandIdx)
    IN  IF Len(argsChunk) >= spaceLeft
        THEN [this |-> dumpUnknownCsi(p), chunk |-> chunk]
        ELSE csiAccept(p, chunk, commandIdx, argsChunk)

\* handleCsi without the length check
handleCsi_noLimit(p, chunk) ==
    LET commandIdx == firstIndex(chunk, ParamClass, FALSE, 0)
        argsChunk == IF commandIdx < 0 THEN chunk ELSE slice(chunk, 0, commandIdx)
    IN  csiAccept(p, chunk, commandIdx, argsChunk)

\* handleCsi taking everything before the first m for parameter bytes
handleCsi_searchesM(p, chunk) ==
    LET spaceLeft == csiArgLenLimit - Len(p.csiArgs)
        commandIdx == firstIndex(chunk, {"m"}, TRUE, 0)
        argsChunk == IF commandIdx < 0 THEN chunk ELSE slice(chunk, 0, commandIdx)
    IN  IF Len(argsChunk) > spaceLeft
        THEN [this |-> dumpUnknownCsi(p), chunk |-> chunk]
        ELSE csiAccept(p, chunk, commandIdx, argsChunk)

\* handleCsi giving up on the rest of the chunk with the oversized list
handleCsi_abortDropsChunk(p, chunk) ==
    LET spaceLeft == csiArgLenLimit - Len(p.csiArgs)
        commandIdx == firstIndex(chunk, ParamClass, FALSE, 0)
        argsChunk == IF commandIdx < 0 THEN chunk ELSE slice(chunk, 0, commandIdx)
    IN  IF Len(argsChunk) > spaceLeft
        THEN [this |-> dumpUnknownCsi(p), chunk |-> <<>>]
        ELSE csiAccept(p, chunk, commandIdx, argsChunk)

\* handleCsi taking an ESC among the parameter bytes for the start of a new
\* sequence: the bytes buffered are dumped and the ESC is left in the chunk
handleCsi_escRestarts(p, chunk) ==
    LET spaceLeft == csiArgLenLimit - Len(p.csiArgs)
        commandIdx == firstIndex(chunk, ParamClass, FALSE, 0)
        argsChunk == IF commandIdx < 0 THEN chunk ELSE slice(chunk, 0, commandIdx)
    IN  IF Len(argsChunk) > spaceLeft
        THEN [this |-> dumpUnknownCsi(p), chunk |-> chunk]
        ELSE IF commandIdx >= 0 /\ chunk[commandIdx + 1] = ESC
        THEN [this |-> dumpUnknownCsi([p EXCEPT !.csiArgs = @ \o argsChunk]),
              chunk |-> sliceFrom(chunk, commandIdx)]
        ELSE csiAccept(p, chunk, commandIdx, argsChunk)

handleCsi(p, chunk) ==
    LET spaceLeft == csiArgLenLimit - Len(p.csiArgs)
        commandIdx == firstIndex(chunk, ParamClass, FALSE, 0)
        argsChunk == IF commandIdx < 0 THEN chunk ELSE slice(chunk, 0, commandIdx)
    IN  IF Len(argsChunk) > spaceLeft
        THEN [this |-> dumpUnknownCsi(p), chunk |-> chunk]
        ELSE csiAccept(p, chunk, commandIdx, argsChunk)

RECURSIVE push(_, _)
push(p, chunk) ==
    IF Len(chunk) > 0
    THEN LET r == CASE p.state = "Text" -> handleText(p, chunk)
                    [] p.state = "Esc" -> handleEsc(p, chunk)
                    [] p.state = "Csi" -> handleCsi(p, chunk)
         IN  push(r.this, r.chunk)
    ELSE p

\* finalize without the dump of an unterminated CSI sequence
finalize_dropsCsi(p) ==
    CASE p.state = "Text" -> p
      [] p.state = "Esc" -> onText(p, <<ESC>>)
      [] p.state = "Csi" -> p

finalize(p) ==
    CASE p.state = "Text" -> p
      [] p.state = "Esc" -> onText(p, <<ESC>>)
      [] p.state = "Csi" -> dumpUnknownCsi(p)

(***************************************************************************)
(* SGRToStringTransformer: transform and flush.                            *)
(***************************************************************************)
transform(p, chunk) == push(p, chunk)

flush(p) ==
    LET q == finalize(p)
    IN  IF q.inSpan
        THEN [enqueue(q, "</span>") EXCEPT !.inSpan = FALSE]
        ELSE q

\* StringChunkSink.toString
join(chunks) ==
    LET RECURSIVE joinFrom(_)
        joinFrom(k) == IF k > Len(chunks) THEN "" ELSE chunks[k] \o joinFrom(k + 1)
    IN  joinFrom(1)

(***************************************************************************)
(* The input texts and the options of the model.                           *)
(***************************************************************************)
RECURSIVE repeat(_, _)
repeat(x, n) == IF n = 0 THEN <<>> ELSE x \o repeat(x, n - 1)

\* one letter, then ESC [ 1;1;...;1;11 with exactly csiArgLenLimit parameter
\* bytes: one more parameter byte makes the list too long
LongCsi ==
    <<"a", ESC, "[">> \o repeat(<<"1", ";">>, (csiArgLenLimit - 2) \div 2) \o <<"1", "1">>

Segments ==
    {<<"a", "<">>, <<ESC>>, <<ESC, "[">>, <<";">>, <<"m">>, <<"K">>,
     <<"3", "m">>, <<ESC, "[", "1", "m">>}

\* what follows the long CSI prefix
TailSegments == {<<"a", "<">>, <<"1">>, <<"m">>, <<"K">>}

RECURSIVE concatAll(_)
concatAll(xs) == IF xs = <<>> THEN <<>> ELSE Head(xs) \o concatAll(Tail(xs))

SegLists(segs, n) == UNION {[1..k -> segs] : k \in 0..n}

Inputs ==
    {concatAll(xs) : xs \in SegLists(Segments, MaxSegs)}
    \cup {LongCsi \o concatAll(xs) : xs \in SegLists(TailSegments, MaxTail)}

PaletteOverride == [standard |-> [red |-> "#f00", green |-> Null]]

OptionSet ==
    {[palette |-> NoObject, escapeControlCodes |-> FALSE],
     [palette |-> PaletteOverride, escapeControlCodes |-> TRUE]}

\* options.palette, undefined when the options have none
optionsPalette(o) == IF "palette" \in DOMAIN o THEN o.palette ELSE NoObject

\* whether options.escapeControlCodes is truthy
optionsEscapeControlCodes(o) ==
    "escapeControlCodes" \in DOMAIN o /\ o.escapeControlCodes

(***************************************************************************)
(* The stream: the text arrives in chunks, then the stream ends.           *)
(***************************************************************************)
Init ==
    /\ text \in Inputs
    /\ offset = 0
    /\ closed = FALSE
    /\ options \in OptionSet
    /\ palette = resolvePalette(optionsPalette(options), defaultPalette)
    /\ escapeControlCodes = optionsEscapeControlCodes(options)
    /\ state = Fresh.state
    /\ csiArgs = Fresh.csiArgs
    /\ csiCommand = Fresh.csiCommand
    /\ style = Fresh.style
    /\ heap = Fresh.heap
    /\ published = Fresh.published
    /\ inSpan = Fresh.inSpan
    /\ out = Fresh.out
    /\ calls = Fresh.calls
    /\ controller = <<>>

Become(p) ==
    /\ state' = p.state
    /\ csiArgs' = p.csiArgs
    /\ csiCommand' = p.csiCommand
    /\ style' = p.style
    /\ heap' = p.heap
    /\ published' = p.published
    /\ inSpan' = p.inSpan
    /\ out' = p.out
    /\ calls' = p.calls

Min(a, b) == IF a < b THEN a ELSE b

\* the source enqueues the next size characters and the transformer gets them
Transform(size) ==
    /\ ~closed
    /\ offset < Len(text)
    /\ LET end == Min(offset + size, Len(text))
       IN  /\ Become(transform(This, slice(text, offset, end)))
           /\ offset' = end
    /\ UNCHANGED <<text, closed, options, palette, escapeControlCodes, controller>>

\* desiredSize is null: the source enqueues all the rest as one chunk
TransformRest ==
    /\ ~closed
    /\ offset < Len(text)
    /\ Become(transform(This, sliceFrom(text, offset)))
    /\ offset' = Len(text)
    /\ UNCHANGED <<text, closed, options, palette, escapeControlCodes, controller>>

\* the source is exhausted: the stream ends
Flush ==
    /\ ~closed
    /\ offset = Len(text)
    /\ Become(flush(This))
    /\ closed' = TRUE
    /\ UNCHANGED <<text, offset, options, palette, escapeControlCodes, controller>>

Next ==
    \/ \E size \in 1..MaxChunk : Transform(size)
    \/ TransformRest
    \/ Flush

Spec == Init /\ [][Next]_vars

TypeOK ==
    /\ state \in {"Text", "Esc", "Csi"}
    /\ offset \in 0..Len(text)
    /\ closed \in BOOLEAN
    /\ inSpan \in BOOLEAN


(***************************************************************************)
(* Vocabulary of the properties.                                           *)
(***************************************************************************)
\* the part of the input delivered so far
Consumed == slice(text, 0, offset)

\* one transformer given the whole text as a single chunk, then flushed
WholeRun == flush(transform(Fresh, text))

\* the input a log entry accounts for: the text of an onText call, the
\* sequence ESC [ parameters m that handleSgr interpreted
Accounted(call) ==
    CASE call.op = "onText" -> call.t
      [] call.op = "handleSgr" -> <<ESC, "[">> \o call.t \o <<"m">>
      [] OTHER -> <<>>

RECURSIVE Reassemble(_)
Reassemble(cs) ==
    IF cs = <<>> THEN <<>> ELSE Accounted(Head(cs)) \o Reassemble(Tail(cs))

\* the partial sequence the parser holds back
Pending ==
    CASE state = "Text" -> <<>>
      [] state = "Esc" -> <<ESC>>
      [] state = "Csi" -> <<ESC, "[">> \o csiArgs

NoSgrRecognised == \A k \in 1..Len(calls) : calls[k].op # "handleSgr"

StyleChanges == {k \in 1..Len(calls) : calls[k].op = "onStyleChange"}

AllParams(x) == \A k \in 1..Len(x) : x[k] \in ParamClass

\* the number of parameter bytes of x from index i on, up to the first
\* character that is none
ParamRun(x, i) ==
    LET j == firstIndex(x, ParamClass, FALSE, i)
    IN  IF j < 0 THEN Len(x) - i ELSE j - i

\* the indices of x at which ESC [ stands
CsiStarts(x) == {i \in 0..(Len(x) - 2) : x[i + 1] = ESC /\ x[i + 2] = "["}

EscCount(x) == Cardinality({i \in 1..Len(x) : x[i] = ESC})

\* x holds ESC [ followed by more than csiArgLenLimit parameter bytes
Oversized(x) == \E i \in CsiStarts(x) : ParamRun(x, i + 2) > csiArgLenLimit

\* an onText call of ESC [ and parameter bytes only, with no final byte
IsBareCsi(call) ==
    /\ call.op = "onText"
    /\ Len(call.t) >= 2
    /\ slice(call.t, 0, 2) = <<ESC, "[">>
    /\ AllParams(sliceFrom(call.t, 2))

(***************************************************************************)
(* C1. Chunk-boundary invariance: once the stream has ended, the           *)
(* concatenation of the strings enqueued for the text delivered in chunks  *)
(* equals the concatenation of those enqueued when the same text is given  *)
(* as one single chunk and flushed.                                        *)
(***************************************************************************)
C1_ChunkBoundaryInvariance == closed => join(out) = join(WholeRun.out)

\* a text delivered in another way than as one chunk, cut so that the
\* strings enqueued differ, with a style change and a long parameter list
C1_Witness ==
    /\ closed
    /\ out # WholeRun.out
    /\ StyleChanges # {}
    /\ \E i \in CsiStarts(text) : ParamRun(text, i + 2) = csiArgLenLimit

(***************************************************************************)
(* C2. No input is dropped: while no SGR sequence has been recognised, the *)
(* texts passed to onText so far, followed by the pending partial sequence *)
(* (nothing in Text, ESC in Esc, ESC [ and the buffer in Csi), are the     *)
(* input consumed so far; after finalize the texts are the whole input.    *)
(***************************************************************************)
C2_NoInputDropped ==
    NoSgrRecognised =>
        IF closed THEN Reassemble(calls) = text
        ELSE Reassemble(calls) \o Pending = Consumed

C2_Witness ==
    /\ NoSgrRecognised
    /\ ~closed
    /\ state = "Csi"
    /\ csiArgs # <<>>
    /\ Reassemble(calls) # <<>>
    /\ EscCount(Consumed) > 1

(***************************************************************************)
(* C3. A CSI sequence is given up as too long exactly when more than 64    *)
(* parameter bytes follow ESC [ (a list of exactly 64 is interpreted).     *)
(* Then ESC [ and the bytes buffered so far, without final byte, go to     *)
(* onText, and the rest, the later m included, is ordinary text: the texts *)
(* are the input unaltered and no style change occurs.                     *)
(***************************************************************************)
C3_OversizedCsi ==
    /\ ~closed => ((\E k \in 1..Len(calls) : IsBareCsi(calls[k])) <=> Oversized(Consumed))
    /\ \A i \in CsiStarts(Consumed) :
        /\ EscCount(slice(Consumed, 0, i + 1)) = 1
        /\ i + 2 + csiArgLenLimit < Len(Consumed)
        /\ ParamRun(Consumed, i + 2) = csiArgLenLimit
        /\ Consumed[i + 3 + csiArgLenLimit] = "m"
        => \E k \in 1..Len(calls) :
            /\ calls[k].op = "handleSgr"
            /\ calls[k].t = slice(Consumed, i + 2, i + 2 + csiArgLenLimit)
    /\ Oversized(Consumed) /\ EscCount(Consumed) = 1 =>
        /\ NoSgrRecognised
        /\ StyleChanges = {}
        /\ style = NewStyle
        /\ ~inSpan
        /\ \E k \in 1..Len(calls) :
            /\ IsBareCsi(calls[k])
            /\ Len(calls[k].t) <= 2 + csiArgLenLimit
            /\ Reassemble(SubSeq(calls, 1, k)) = slice(Consumed, 0, Len(Reassemble(SubSeq(calls, 1, k))))
        /\ IF closed THEN Reassemble(calls) = text
           ELSE state = "Text" /\ Reassemble(calls) = Consumed

\* a list of 65 parameter bytes and its m, all delivered, in small chunks
C3_Witness ==
    /\ closed
    /\ Oversized(text)
    /\ text[Len(text)] = "m"
    /\ out # WholeRun.out
    /\ \E k \in 1..Len(calls) : IsBareCsi(calls[k]) /\ Len(calls[k].t) = 2 + csiArgLenLimit

(***************************************************************************)
(* C4. The CSI parameter buffer never holds more than 64 characters.       *)
(***************************************************************************)
C4_BufferBounded == Len(csiArgs) <= csiArgLenLimit

C4_Witness == state = "Csi" /\ Len(csiArgs) = csiArgLenLimit


(***************************************************************************)
(* C5. A CSI sequence whose final byte is not m is passed through: ESC [,  *)
(* the buffered parameter bytes and the final byte go to onText as one     *)
(* text run, no style changes, and the parser goes on in Text with the     *)
(* character after the final byte.  (Stated for the first ESC of a text,   *)
(* which the parser meets in state Text.)                                  *)
(***************************************************************************)
\* the log entries after the k-th
LogAfter(k) == SubSeq(calls, k + 1, Len(calls))

FirstEsc(x) == firstIndex(x, {ESC}, TRUE, 0)

\* the index of the final byte of the CSI sequence that x[i], x[i + 1] open
FinalByte(x, i) == firstIndex(x, ParamClass, FALSE, i + 2)

\* the first ESC of x, at index i, opens a CSI sequence of at most
\* csiArgLenLimit parameter bytes whose final byte, at index j, is not m
UnknownCsiAt(x, i, j) ==
    /\ i >= 0
    /\ i = FirstEsc(x)
    /\ i + 1 < Len(x)
    /\ x[i + 2] = "["
    /\ j = FinalByte(x, i)
    /\ j >= 0
    /\ j - (i + 2) <= csiArgLenLimit
    /\ x[j + 1] # "m"

C5_UnknownCsiPassedThrough ==
    LET i == FirstEsc(Consumed)
        j == FinalByte(Consumed, i)
    IN  UnknownCsiAt(Consumed, i, j) =>
            \E k \in 1..Len(calls) :
                /\ calls[k] = Call("onText", slice(Consumed, i, j + 1), NewStyle)
                /\ \A n \in 1..k : calls[n].op = "onText"
                /\ Reassemble(SubSeq(calls, 1, k - 1)) = slice(Consumed, 0, i)
                /\ IF closed
                   THEN Reassemble(LogAfter(k)) = sliceFrom(text, j + 1)
                   ELSE Reassemble(LogAfter(k)) \o Pending = sliceFrom(Consumed, j + 1)
                /\ offset = j + 1 /\ ~closed =>
                    /\ state = "Text"
                    /\ csiArgs = <<>>
                    /\ style = NewStyle
                    /\ ~inSpan

\* text, then ESC [ with parameter bytes and a final byte other than m, then
\* more input
C5_Witness ==
    LET i == FirstEsc(text)
        j == FinalByte(text, i)
    IN  /\ closed
        /\ UnknownCsiAt(text, i, j)
        /\ i > 0
        /\ j > i + 2
        /\ j + 1 < Len(text)

(***************************************************************************)
(* C6. An ESC that is not followed by [ is passed through: the single ESC  *)
(* goes to onText, and the character after it is processed in Text, not    *)
(* consumed in Esc; until that character arrives (it may come in a later   *)
(* chunk) the ESC is held back.  (Stated for the first ESC of a text.)     *)
(***************************************************************************)
C6_LoneEscPassedThrough ==
    LET i == FirstEsc(Consumed)
    IN  /\ (i >= 0 /\ i + 1 < Len(Consumed) /\ Consumed[i + 2] # "[") =>
            \E k \in 1..Len(calls) :
                /\ calls[k] = Call("onText", <<ESC>>, NewStyle)
                /\ \A n \in 1..k : calls[n].op = "onText"
                /\ Reassemble(SubSeq(calls, 1, k - 1)) = slice(Consumed, 0, i)
                /\ IF closed
                   THEN Reassemble(LogAfter(k)) = sliceFrom(text, i + 1)
                   ELSE Reassemble(LogAfter(k)) \o Pending = sliceFrom(Consumed, i + 1)
        /\ (i >= 0 /\ i + 1 = Len(Consumed) /\ ~closed) =>
            /\ state = "Esc"
            /\ Reassemble(calls) = slice(Consumed, 0, i)

\* text, ESC, and a character other than [ that went to onText as text
C6_Witness ==
    LET i == FirstEsc(Consumed)
    IN  /\ i > 0
        /\ i + 1 < Len(Consumed)
        /\ Consumed[i + 2] = "K"
        /\ state = "Text"
        /\ calls[Len(calls)] = Call("onText", <<"K">>, NewStyle)

(***************************************************************************)
(* C7. End of stream flushes the partial sequence: finalize passes a       *)
(* single ESC to onText in state Esc, ESC [ and the buffered parameter     *)
(* bytes (no final byte) in state Csi, and nothing in state Text.          *)
(***************************************************************************)
C7_FinalizeFlushesPartial ==
    [][(~closed /\ closed') =>
        calls' = CASE state = "Text" -> calls
                   [] state = "Esc" -> Append(calls, Call("onText", <<ESC>>, NewStyle))
                   [] state = "Csi" ->
                        Append(calls, Call("onText", <<ESC, "[">> \o csiArgs, NewStyle))]_vars

\* the stream ended in the middle of a CSI sequence with parameter bytes
C7_Witness ==
    /\ closed
    /\ ~Oversized(text)
    /\ calls # <<>>
    /\ IsBareCsi(calls[Len(calls)])
    /\ Len(calls[Len(calls)].t) > 2

(***************************************************************************)
(* C8. Spans are balanced and never nested: in every prefix of the strings *)
(* enqueued the span tags opened minus the ones closed is 0 or 1; after    *)
(* flush it is 0, and the span left open by the text is closed by the      *)
(* last string enqueued, after the text that finalize flushed.             *)
(***************************************************************************)
IsSpanOpen(str) == Len(str) >= 6 /\ SubSeq(str, 1, 6) = "<span "

IsSpanClose(str) == str = "</span>"

\* span tags opened minus span tags closed in the first n strings enqueued
Balance(n) ==
    Cardinality({k \in 1..n : IsSpanOpen(out[k])})
    - Cardinality({k \in 1..n : IsSpanClose(out[k])})

C8_SpansBalanced ==
    /\ \A n \in 0..Len(out) : Balance(n) \in {0, 1}
    /\ closed => Balance(Len(out)) = 0
    /\ (closed /\ Len(out) > 0 /\ Balance(Len(out) - 1) = 1) => IsSpanClose(out[Len(out)])
    /\ (closed /\ ~isEmpty(style)) => (out # <<>> /\ IsSpanClose(out[Len(out)]))

\* a span opened, a second style opened after it, and a lone ESC flushed by
\* finalize right before the closing tag
C8_Witness ==
    /\ closed
    /\ state = "Esc"
    /\ Len(out) >= 2
    /\ IsSpanClose(out[Len(out)])
    /\ out[Len(out) - 1] = escaper(<<ESC>>)
    /\ Cardinality({k \in 1..Len(out) : IsSpanOpen(out[k])}) >= 1

(***************************************************************************)
(* C9. Events come in input order: reading the log in order, the texts     *)
(* passed to onText and the SGR sequences interpreted spell the input      *)
(* consumed (with the pending partial sequence at the end), and each       *)
(* onStyleChange call stands right after its SGR sequence: the text before *)
(* a sequence is passed before its style change, the text after it after.  *)
(***************************************************************************)
C9_EventsInInputOrder ==
    /\ IF closed THEN Reassemble(calls) = text
       ELSE Reassemble(calls) \o Pending = Consumed
    /\ \A k \in StyleChanges : k > 1 /\ calls[k - 1].op = "handleSgr"

\* text before and after a style change, delivered in several chunks
C9_Witness ==
    /\ closed
    /\ out # WholeRun.out
    /\ \E k \in StyleChanges :
        /\ \E a \in 1..(k - 1) : calls[a].op = "onText" /\ calls[a].t # <<>>
        /\ \E b \in (k + 1)..Len(calls) : calls[b].op = "onText" /\ calls[b].t # <<>>

(***************************************************************************)
(* C10. onStyleChange is called for an SGR sequence if and only if the     *)
(* Style computed from its parameters differs from the current Style in at *)
(* least one of the six fields; when it is called the computed Style is    *)
(* the new current Style, otherwise the current Style is kept.             *)
(***************************************************************************)
\* the current Style after the first n log entries
CurStyle(n) ==
    LET ks == {k \in StyleChanges : k <= n}
    IN  IF ks = {} THEN NewStyle
        ELSE calls[CHOOSE k \in ks : \A m \in ks : m <= k].s

Differs(a, b) ==
    \/ a.fontWeight # b.fontWeight
    \/ a.fontStyle # b.fontStyle
    \/ a.textDecorationUnderline # b.textDecorationUnderline
    \/ a.textDecorationLineThrough # b.textDecorationLineThrough
    \/ a.color # b.color
    \/ a.backgroundColor # b.backgroundColor

SgrEntries == {k \in 1..Len(calls) : calls[k].op = "handleSgr"}

\* the Style computed for the SGR sequence logged at k
Computed(k) == parseSgrFrom(sgrParameters(calls[k].t), 0, CurStyle(k - 1))

Announced(k) == k < Len(calls) /\ calls[k + 1].op = "onStyleChange"

C10_StyleChangeIffDiffers ==
    /\ \A k \in SgrEntries :
        /\ Announced(k) <=> Differs(Computed(k), CurStyle(k - 1))
        /\ Announced(k) => calls[k + 1].s = Computed(k)
    /\ \A k \in StyleChanges : k - 1 \in SgrEntries
    /\ style = CurStyle(Len(calls))

\* one SGR sequence that changed the Style, and a later one that computed
\* the Style already current and was not announced
C10_Witness ==
    \E k, n \in SgrEntries :
        /\ k < n
        /\ Announced(k)
        /\ ~isEmpty(Computed(k))
        /\ ~Announced(n)
        /\ ~Differs(Computed(n), CurStyle(n - 1))


(***************************************************************************)
(* SGR interpretation: one transformer that is written whole sequences     *)
(* ESC [ parameters m, each as one chunk: a first sequence that sets the   *)
(* current Style, a second one, and that second one once more.             *)
(***************************************************************************)
\* the largest single parameter fed on its own
MaxCode == 110

\* the largest colour number fed after 38;5 and 48;5
MaxColorIndex == 260

DecDigit == <<"0", "1", "2", "3", "4", "5", "6", "7", "8", "9">>

\* the decimal digits of n
RECURSIVE Dec(_)
Dec(n) ==
    IF n < 10 THEN <<DecDigit[n + 1]>>
    ELSE Dec(n \div 10) \o <<DecDigit[(n % 10) + 1]>>

\* the parameter bytes of a list of numbers
RECURSIVE Render(_)
Render(list) ==
    IF list = <<>> THEN <<>>
    ELSE IF Len(list) = 1 THEN Dec(list[1])
    ELSE Dec(list[1]) \o <<";">> \o Render(Tail(list))

BasicCodes == {0, 1, 2, 3, 4, 8, 9, 22, 23, 24, 29, 31, 39, 42, 49, 96, 105}

Components == {0, 42, 100, 255, 256}

Selectors == {38, 48}

\* extended colours that are cut short, name no colorspace or a wrong one,
\* or hold a component that is no byte
BadColors ==
    UNION {{<<s>>, <<s, 5>>, <<s, 2>>, <<s, 2, 100>>, <<s, 2, 100, 100>>,
            <<s, 1>>, <<s, 0>>, <<s, 3, 1>>, <<s, 6, 1, 2, 3>>,
            <<s, 5, 256>>, <<s, 5, 420>>, <<s, 2, 100, 100, 420>>,
            <<s, 2, 256, 0, 0>>, <<s, 2, 0, 256, 0>>} : s \in Selectors}

GoodColors ==
    UNION {{<<s, 5, 1>>, <<s, 5, 9>>, <<s, 5, 182>>, <<s, 5, 243>>,
            <<s, 2, 1, 2, 3>>} : s \in Selectors}

Prefixes == {<<>>, <<1>>, <<4, 31>>}

Suffixes == {<<>>, <<3>>, <<4>>, <<9>>, <<9, 42>>}

ParameterLists ==
    {<<c>> : c \in 0..MaxCode}
    \cup {<<a, b>> : a \in BasicCodes, b \in BasicCodes}
    \cup {<<s, 5, n>> : s \in Selectors, n \in 0..MaxColorIndex}
    \cup {<<s, 2, r, g, b>> : s \in Selectors, r \in Components,
                              g \in Components, b \in Components}
    \cup {pre \o c \o suf : pre \in Prefixes, c \in BadColors \cup GoodColors,
                            suf \in Suffixes}

\* parameter bytes that are no plain list of numbers: empty fields, and
\* numbers too large to be exact
RawParameters ==
    {<<>>, <<";">>, <<"2", ";", ";", "1">>, <<"2", ";", "0", ";", "1">>,
     <<";", "1">>, <<"1", ";">>,
     <<"3", "8", ";", "5", ";">>, <<"4", "8", ";", "5", ";">>,
     <<"3", "8", ";", "2", ";", ";", ";">>, <<"4", "8", ";", "2", ";", ";", ";">>,
     <<"3", "8", ";", ";">>, <<"4", "8", ";", ";">>, <<"3", "8", ";">>,
     <<"4", "2", "9", "4", "9", "6", "7", "2", "9", "7">>,
     repeat(<<"9">>, 20)}

SgrParameters == {Render(list) : list \in ParameterLists} \cup RawParameters

\* the sequences that set the Style the second sequence starts from
PriorParameters ==
    {Render(<<0>>), Render(<<1, 3, 4, 9, 31, 42>>), Render(<<2, 9, 48, 5, 100>>),
     Render(<<3, 4, 92, 101>>)}

SgrSequence(bytes) == <<ESC, "[">> \o bytes \o <<"m">>

\* the sequences written so far
Written == Cardinality({k \in 1..Len(text) : text[k] = ESC})

SgrInit ==
    /\ text = <<>>
    /\ offset = 0
    /\ closed = FALSE
    /\ options \in OptionSet
    /\ palette = resolvePalette(optionsPalette(options), defaultPalette)
    /\ escapeControlCodes = optionsEscapeControlCodes(options)
    /\ state = Fresh.state
    /\ csiArgs = Fresh.csiArgs
    /\ csiCommand = Fresh.csiCommand
    /\ style = Fresh.style
    /\ heap = Fresh.heap
    /\ published = Fresh.published
    /\ inSpan = Fresh.inSpan
    /\ out = Fresh.out
    /\ calls = Fresh.calls
    /\ controller = <<>>

\* the transformer is written one whole chunk
Write(chunk) ==
    /\ Become(transform(This, chunk))
    /\ text' = text \o chunk
    /\ offset' = Len(text) + Len(chunk)
    /\ UNCHANGED <<closed, options, palette, escapeControlCodes, controller>>

FeedPrior ==
    /\ Written = 0
    /\ \E bytes \in PriorParameters : Write(SgrSequence(bytes))

FeedSgr ==
    /\ Written = 1
    /\ \E bytes \in SgrParameters : Write(SgrSequence(bytes))

\* the last sequence once more
FeedAgain ==
    /\ Written = 2
    /\ LET last == CHOOSE k \in 1..Len(text) :
                    text[k] = ESC /\ \A j \in (k + 1)..Len(text) : text[j] # ESC
       IN  Write(sliceFrom(text, last - 1))

SgrNext ==
    \/ FeedPrior
    \/ FeedSgr
    \/ FeedAgain

SgrSpec == SgrInit /\ [][SgrNext]_vars


(***************************************************************************)
(* Vocabulary of the properties of SGR interpretation.                     *)
(***************************************************************************)
\* the current Style before and after the SGR sequence logged at k
StyleBefore(k) == CurStyle(k - 1)

StyleAfter(k) == CurStyle(k + 1)

\* the next SGR sequence after the one logged at k
NextSgr(k) == {n \in SgrEntries : k < n /\ \A j \in SgrEntries : ~(k < j /\ j < n)}

Cleared ==
    [fontWeight |-> "", fontStyle |-> "",
     textDecorationUnderline |-> FALSE, textDecorationLineThrough |-> FALSE,
     color |-> "", backgroundColor |-> ""]

\* no text reached the listener or the output
NoTextEmitted ==
    /\ \A k \in 1..Len(calls) : calls[k].op = "onText" => calls[k].t = <<>>
    /\ \A k \in 1..Len(out) : out[k] = "" \/ IsSpanOpen(out[k]) \/ IsSpanClose(out[k])

(***************************************************************************)
(* C11. SGR application is idempotent: the same SGR sequence fed twice in  *)
(* a row, from any current Style and for any parameter list (lists that    *)
(* bail out on a malformed 38/48 included), leaves after the second time   *)
(* the Style the first time computed, and the second time causes no        *)
(* onStyleChange call.                                                     *)
(***************************************************************************)
C11_SgrIdempotent ==
    \A k \in SgrEntries : \A n \in NextSgr(k) :
        calls[n].t = calls[k].t =>
            /\ ~Announced(n)
            /\ StyleAfter(n) = StyleAfter(k)
            /\ Cardinality({j \in StyleChanges : j > k}) <= 1

\* the list 1;38;5, which sets bold and then bails out, fed twice from the
\* empty Style: announced the first time
C11_Witness ==
    \E k \in SgrEntries : \E n \in NextSgr(k) :
        /\ calls[k].t = <<"1", ";", "3", "8", ";", "5">>
        /\ calls[n].t = calls[k].t
        /\ isEmpty(StyleBefore(k))
        /\ Announced(k)

(***************************************************************************)
(* C12. From any current Style each of ESC[m, ESC[0m and ESC[;m yields the *)
(* empty Style; an empty field between semicolons is read as parameter 0,  *)
(* so ESC[2;;1m and ESC[2;0;1m both yield the Style that is only bold.     *)
(***************************************************************************)
C12_ResetEquivalence ==
    \A k \in SgrEntries :
        /\ calls[k].t \in {<<>>, <<"0">>, <<";">>, <<"1", ";">>} =>
                StyleAfter(k) = Cleared
        /\ calls[k].t \in {<<"2", ";", ";", "1">>, <<"2", ";", "0", ";", "1">>,
                           <<";", "1">>} =>
                StyleAfter(k) = [Cleared EXCEPT !.fontWeight = "bolder"]

\* ESC[;m after a sequence that set all six fields
C12_Witness ==
    \E k \in SgrEntries :
        /\ calls[k].t = <<";">>
        /\ StyleBefore(k).fontWeight # ""
        /\ StyleBefore(k).fontStyle # ""
        /\ StyleBefore(k).textDecorationUnderline
        /\ StyleBefore(k).textDecorationLineThrough
        /\ StyleBefore(k).color # ""
        /\ StyleBefore(k).backgroundColor # ""
        /\ Announced(k)
        /\ style = Cleared


(***************************************************************************)
(* The parameter list an SGR sequence spells, and what the parameters      *)
(* other than 38 and 48 are documented to do.                              *)
(***************************************************************************)
RECURSIVE DecValue(_)
DecValue(d) ==
    IF d = <<>> THEN 0
    ELSE DecValue(SubSeq(d, 1, Len(d) - 1)) * 10 + DigitVal[d[Len(d)]]

\* the numbers between the semicolons, when each is written as a plain
\* decimal number of at most three digits; <<>> otherwise
ListOf(t) ==
    LET parts == split(t)
    IN  IF \A k \in 1..Len(parts) :
                Len(parts[k]) \in 1..3 /\ Dec(DecValue(parts[k])) = parts[k]
        THEN [k \in 1..Len(parts) |-> DecValue(parts[k])]
        ELSE <<>>

StyleFields ==
    {"fontWeight", "fontStyle", "textDecorationUnderline",
     "textDecorationLineThrough", "color", "backgroundColor"}

ColorOrder == <<"black", "red", "green", "yellow", "blue", "magenta", "cyan", "white">>

\* the fields a parameter targets
Targets(v) ==
    CASE v = 0 -> StyleFields
      [] v \in {1, 2, 22} -> {"fontWeight"}
      [] v \in {3, 23} -> {"fontStyle"}
      [] v \in {4, 24} -> {"textDecorationUnderline"}
      [] v \in {9, 29} -> {"textDecorationLineThrough"}
      [] v \in (30..37) \cup {39} \cup (90..97) -> {"color"}
      [] v \in (40..47) \cup {49} \cup (100..107) -> {"backgroundColor"}
      [] OTHER -> {}

\* the value a parameter gives to a field it targets
Assigned(v, f) ==
    CASE v = 0 -> Cleared[f]
      [] v = 1 -> "bolder"
      [] v = 2 -> "lighter"
      [] v = 3 -> "italic"
      [] v \in {4, 9} -> TRUE
      [] v \in {24, 29} -> FALSE
      [] v \in {22, 23, 39, 49} -> ""
      [] v \in 30..37 -> palette.standard[ColorOrder[v - 29]]
      [] v \in 40..47 -> palette.standard[ColorOrder[v - 39]]
      [] v \in 90..97 -> palette.bright[ColorOrder[v - 89]]
      [] v \in 100..107 -> palette.bright[ColorOrder[v - 99]]

\* the last parameter of the list that targets the field, 0 when none does
LastTargeting(list, f) ==
    LET is == {i \in 1..Len(list) : f \in Targets(list[i])}
    IN  IF is = {} THEN 0 ELSE CHOOSE i \in is : \A j \in is : j <= i

\* each field as its last targeting parameter leaves it
Applied(prev, list) ==
    [f \in StyleFields |->
        IF LastTargeting(list, f) = 0 THEN prev[f]
        ELSE Assigned(list[LastTargeting(list, f)], f)]

(***************************************************************************)
(* C13. The parameters of one SGR sequence are applied left to right on a  *)
(* copy of the current Style: each field ends with the value given by the  *)
(* last parameter of the list that targets it (0 targets all six) and a    *)
(* field no parameter targets keeps its previous value. ESC[1;0m yields    *)
(* the empty Style, ESC[0;1m bold only, ESC[1m adds bold to the previous   *)
(* Style.                                                                  *)
(***************************************************************************)
C13_LastParameterWins ==
    \A k \in SgrEntries :
        LET list == ListOf(calls[k].t)
        IN  /\ (list # <<>> /\ \A i \in 1..Len(list) : list[i] \notin Selectors) =>
                    StyleAfter(k) = Applied(StyleBefore(k), list)
            /\ list = <<1, 0>> => StyleAfter(k) = Cleared
            /\ list = <<0, 1>> => StyleAfter(k) = [Cleared EXCEPT !.fontWeight = "bolder"]
            /\ list = <<1>> =>
                    StyleAfter(k) = [StyleBefore(k) EXCEPT !.fontWeight = "bolder"]

\* ESC[1;2m after a sequence that set italic: the weight is that of the
\* later parameter and italic is kept
C13_Witness ==
    \E k \in SgrEntries :
        /\ ListOf(calls[k].t) = <<1, 2>>
        /\ StyleBefore(k).fontStyle = "italic"
        /\ StyleBefore(k).fontWeight = ""
        /\ Announced(k)
        /\ style.fontWeight = "lighter"
        /\ style.fontStyle = "italic"

(***************************************************************************)
(* C14. The basic attribute codes change only their own field: 1 sets      *)
(* font-weight bolder, 2 lighter, 22 clears it; 3 sets italic, 23 clears   *)
(* it; 4 / 24 turn underline on / off; 9 / 29 turn strikethrough on / off; *)
(* the other five fields of the Style stay as they were.                   *)
(***************************************************************************)
C14_BasicCodesFrame ==
    \A k \in SgrEntries :
        LET list == ListOf(calls[k].t)
            before == StyleBefore(k)
            after == StyleAfter(k)
        IN  /\ list = <<1>> => after = [before EXCEPT !.fontWeight = "bolder"]
            /\ list = <<2>> => after = [before EXCEPT !.fontWeight = "lighter"]
            /\ list = <<22>> => after = [before EXCEPT !.fontWeight = ""]
            /\ list = <<3>> => after = [before EXCEPT !.fontStyle = "italic"]
            /\ list = <<23>> => after = [before EXCEPT !.fontStyle = ""]
            /\ list = <<4>> => after = [before EXCEPT !.textDecorationUnderline = TRUE]
            /\ list = <<24>> => after = [before EXCEPT !.textDecorationUnderline = FALSE]
            /\ list = <<9>> => after = [before EXCEPT !.textDecorationLineThrough = TRUE]
            /\ list = <<29>> => after = [before EXCEPT !.textDecorationLineThrough = FALSE]

\* ESC[24m after a sequence that set all six fields: underline goes, the
\* other five stay
C14_Witness ==
    \E k \in SgrEntries :
        /\ ListOf(calls[k].t) = <<24>>
        /\ StyleBefore(k).textDecorationUnderline
        /\ Announced(k)
        /\ ~style.textDecorationUnderline
        /\ style.fontWeight = "bolder"
        /\ style.fontStyle = "italic"
        /\ style.textDecorationLineThrough
        /\ style.color # ""
        /\ style.backgroundColor # ""


(***************************************************************************)
(* C15. Palette colour codes: p in 30..37 sets the foreground to the       *)
(* standard palette colour of index p-30, p in 90..97 to the bright colour *)
(* of index p-90, p in 40..47 sets the background to the standard colour   *)
(* of index p-40, p in 100..107 to the bright colour of index p-100, in    *)
(* the order black, red, green, yellow, blue, magenta, cyan, white; 39     *)
(* clears the foreground and 49 the background; the other five fields stay *)
(* as they were.                                                           *)
(***************************************************************************)
C15_PaletteCodes ==
    \A k \in SgrEntries :
        LET list == ListOf(calls[k].t)
            before == StyleBefore(k)
            after == StyleAfter(k)
            p == list[1]
        IN  Len(list) = 1 =>
            /\ p \in 30..37 =>
                after = [before EXCEPT !.color = palette.standard[ColorOrder[p - 30 + 1]]]
            /\ p \in 90..97 =>
                after = [before EXCEPT !.color = palette.bright[ColorOrder[p - 90 + 1]]]
            /\ p \in 40..47 =>
                after = [before EXCEPT
                            !.backgroundColor = palette.standard[ColorOrder[p - 40 + 1]]]
            /\ p \in 100..107 =>
                after = [before EXCEPT
                            !.backgroundColor = palette.bright[ColorOrder[p - 100 + 1]]]
            /\ p = 39 => after = [before EXCEPT !.color = ""]
            /\ p = 49 => after = [before EXCEPT !.backgroundColor = ""]

\* ESC[32m under the default palette, after a sequence that set a bright
\* foreground and a background: the foreground is the standard green and
\* the background is kept
C15_Witness ==
    \E k \in SgrEntries :
        /\ ListOf(calls[k].t) = <<32>>
        /\ StyleBefore(k).color = "#16c60c"
        /\ StyleBefore(k).backgroundColor = "#e74856"
        /\ Announced(k)
        /\ style.color = "#13a10e"
        /\ style.backgroundColor = "#e74856"

(***************************************************************************)
(* C16. An SGR parameter with no assigned meaning (any value outside 0-4,  *)
(* 9, 22-24, 29, 30-49, 90-97, 100-107, numbers too large to be exact      *)
(* included) changes no field of the Style; the sequence is consumed       *)
(* whole: no text comes out and onStyleChange is not called.               *)
(***************************************************************************)
MeaningfulCodes ==
    (0..4) \cup {9} \cup (22..24) \cup {29} \cup (30..49) \cup (90..97) \cup (100..107)

\* a sequence whose one parameter has no assigned meaning
Meaningless(t) ==
    \/ Len(ListOf(t)) = 1 /\ ListOf(t)[1] \notin MeaningfulCodes
    \/ t = <<"4", "2", "9", "4", "9", "6", "7", "2", "9", "7">>
    \/ t = repeat(<<"9">>, 20)

C16_UnknownParameterIgnored ==
    /\ \A k \in SgrEntries :
        Meaningless(calls[k].t) =>
            /\ ~Announced(k)
            /\ StyleAfter(k) = StyleBefore(k)
    /\ NoTextEmitted
    /\ state = "Text" /\ csiArgs = <<>> /\ csiCommand = <<>>

\* ESC[99999999999999999999m after a sequence that set all six fields
C16_Witness ==
    \E k \in SgrEntries :
        /\ calls[k].t = repeat(<<"9">>, 20)
        /\ k = Len(calls)
        /\ style.fontWeight = "bolder"
        /\ style.fontStyle = "italic"
        /\ style.textDecorationUnderline
        /\ style.textDecorationLineThrough
        /\ style.color # ""
        /\ style.backgroundColor # ""


(***************************************************************************)
(* C17. 8-bit extended colour: for every n in 0..255 the parameters 38;5;n *)
(* (48;5;n) set the foreground (background) to the standard palette colour *)
(* n for n in 0..7, the bright palette colour n-8 for n in 8..15,          *)
(* rgb(51*(((n-16) div 36) mod 6), 51*(((n-16) div 6) mod 6),              *)
(* 51*((n-16) mod 6)) for n in 16..231 and rgb(v,v,v) with v = (n-232)*11  *)
(* for n in 232..255: 16 gives rgb(0,0,0), 231 rgb(255,255,255), 232       *)
(* rgb(0,0,0), 255 rgb(253,253,253).                                       *)
(***************************************************************************)
\* the CSS notation rgb(r,g,b)
CssRgb(r, g, b) ==
    "rgb(" \o ToString(r) \o "," \o ToString(g) \o "," \o ToString(b) \o ")"

EightBitColor(n) ==
    CASE n \in 0..7 -> palette.standard[ColorOrder[n + 1]]
      [] n \in 8..15 -> palette.bright[ColorOrder[n - 8 + 1]]
      [] n \in 16..231 ->
            CssRgb(51 * (((n - 16) \div 36) % 6), 51 * (((n - 16) \div 6) % 6),
                   51 * ((n - 16) % 6))
      [] n \in 232..255 -> CssRgb((n - 232) * 11, (n - 232) * 11, (n - 232) * 11)

\* the Style with the colour field that the selector 38 or 48 names replaced
WithColor(s, selector, c) ==
    IF selector = 38 THEN [s EXCEPT !.color = c] ELSE [s EXCEPT !.backgroundColor = c]

C17_EightBitColor ==
    \A k \in SgrEntries :
        LET list == ListOf(calls[k].t)
            n == list[3]
            expect(c) == StyleAfter(k) = WithColor(StyleBefore(k), list[1], c)
        IN  (Len(list) = 3 /\ list[1] \in Selectors /\ list[2] = 5 /\ n \in 0..255) =>
            /\ expect(EightBitColor(n))
            /\ n = 16 => expect("rgb(0,0,0)")
            /\ n = 231 => expect("rgb(255,255,255)")
            /\ n = 232 => expect("rgb(0,0,0)")
            /\ n = 255 => expect("rgb(253,253,253)")

\* ESC[38;5;21m, the pure blue of the cube, after a sequence that set a
\* background
C17_Witness ==
    \E k \in SgrEntries :
        /\ ListOf(calls[k].t) = <<38, 5, 21>>
        /\ StyleBefore(k).backgroundColor # ""
        /\ Announced(k)
        /\ style.color = "rgb(0,0,255)"
        /\ style.backgroundColor = StyleBefore(k).backgroundColor

FirstSelector(list) ==
    LET is == {i \in 1..Len(list) : list[i] \in Selectors}
    IN  IF is = {} THEN 0 ELSE CHOOSE i \in is : \A j \in is : i <= j

\* the parameters a well-formed extended colour at index i takes up, the
\* 38 or 48 included; 0 when it is malformed
ColorLength(list, i) ==
    IF i = Len(list) THEN 0
    ELSE IF list[i + 1] = 5
         THEN IF i + 2 <= Len(list) /\ list[i + 2] \in 0..255 THEN 3 ELSE 0
    ELSE IF list[i + 1] = 2
         THEN IF i + 4 <= Len(list) /\ \A j \in (i + 2)..(i + 4) : list[j] \in 0..255
              THEN 5 ELSE 0
    ELSE 0

ColorAt(list, i) ==
    IF list[i + 1] = 5 THEN EightBitColor(list[i + 2])
    ELSE CssRgb(list[i + 2], list[i + 3], list[i + 4])

(***************************************************************************)
(* C19. Malformed extended colour: when 38 or 48 is followed by no         *)
(* colorspace, by a colorspace other than 2 or 5, by fewer parameters than *)
(* the colorspace needs or by a component outside 0..255, the 38 / 48 and  *)
(* all later parameters of the list have no effect on the Style, the       *)
(* parameters before it keep theirs, and the sequence is consumed without  *)
(* any text coming out.                                                    *)
(***************************************************************************)
C19_MalformedColorStops ==
    /\ \A k \in SgrEntries :
        LET list == ListOf(calls[k].t)
            i == FirstSelector(list)
        IN  (i > 0 /\ ColorLength(list, i) = 0) =>
                StyleAfter(k) = Applied(StyleBefore(k), SubSeq(list, 1, i - 1))
    /\ NoTextEmitted
    /\ (Written > 0 /\ state = "Text") => calls[Len(calls)].op # "onText"

\* ESC[4;31;38;2;256;0;0;9;42m from the empty Style: underline and red are
\* set, strikethrough and the background are not
C19_Witness ==
    \E k \in SgrEntries :
        /\ ListOf(calls[k].t) = <<4, 31, 38, 2, 256, 0, 0, 9, 42>>
        /\ isEmpty(StyleBefore(k))
        /\ Announced(k)
        /\ style = [Cleared EXCEPT !.textDecorationUnderline = TRUE,
                                   !.color = palette.standard.red]

(***************************************************************************)
(* C20. After a well-formed 38 / 48 sub-sequence the colorspace selector   *)
(* and the components are not read as SGR codes of their own, and the      *)
(* parameter right after them is the next one interpreted: ESC[38;5;1;4m   *)
(* sets the foreground to the standard red and underline on and does not   *)
(* set bold, ESC[38;2;1;2;3;9m sets rgb(1,2,3) and strikethrough only.     *)
(***************************************************************************)
C20_ResumesAfterColor ==
    \A k \in SgrEntries :
        LET list == ListOf(calls[k].t)
            before == StyleBefore(k)
            i == FirstSelector(list)
            n == ColorLength(list, i)
            rest == SubSeq(list, i + n, Len(list))
        IN  /\ (i > 0 /\ n > 0 /\ FirstSelector(rest) = 0) =>
                StyleAfter(k) =
                    Applied(WithColor(Applied(before, SubSeq(list, 1, i - 1)),
                                      list[i], ColorAt(list, i)),
                            rest)
            /\ list = <<38, 5, 1, 4>> =>
                StyleAfter(k) = [before EXCEPT !.color = palette.standard.red,
                                               !.textDecorationUnderline = TRUE]
            /\ list = <<38, 2, 1, 2, 3, 9>> =>
                StyleAfter(k) = [before EXCEPT !.color = "rgb(1,2,3)",
                                               !.textDecorationLineThrough = TRUE]

\* ESC[38;5;1;4m from the empty Style: red and underlined, not bold
C20_Witness ==
    \E k \in SgrEntries :
        /\ ListOf(calls[k].t) = <<38, 5, 1, 4>>
        /\ isEmpty(StyleBefore(k))
        /\ Announced(k)
        /\ style = [Cleared EXCEPT !.color = palette.standard.red,
                                   !.textDecorationUnderline = TRUE]
        /\ style.fontWeight = ""


(***************************************************************************)
(* Escaping: the stream of Spec over texts that hold each character the    *)
(* escapers treat apart, alone and next to text and SGR sequences, with    *)
(* escapeControlCodes absent, false and true.                              *)
(***************************************************************************)
\* the characters 0x00..0x1F in order
LowChars ==
    <<"\\x00", "\\x01", "\\x02", "\\x03", "\\x04", "\\x05", "\\x06", "\\x07",
      "\\x08", "\\x09", "\\x0A", "\\x0B", "\\x0C", "\\x0D", "\\x0E", "\\x0F",
      "\\x10", "\\x11", "\\x12", "\\x13", "\\x14", "\\x15", "\\x16", "\\x17",
      "\\x18", "\\x19", "\\x1A", "\\x1B", "\\x1C", "\\x1D", "\\x1E", "\\x1F">>

EscapeChars == {LowChars[k] : k \in 1..Len(LowChars)} \cup HtmlClass \cup {"a"}

EscapePrefixes == {<<>>, <<"a">>, <<ESC, "[", "1", "m">>}

EscapeSuffixes == {<<>>, <<"<", "\\x07">>, <<ESC, "[", "0", "m", "&">>}

EscapeInputs ==
    {pre \o <<c>> \o suf :
        pre \in EscapePrefixes, c \in EscapeChars, suf \in EscapeSuffixes}

EscapeOptionSet ==
    {NoObject, [escapeControlCodes |-> FALSE], [escapeControlCodes |-> TRUE]}

EscapeInit ==
    /\ text \in EscapeInputs
    /\ offset = 0
    /\ closed = FALSE
    /\ options \in EscapeOptionSet
    /\ palette = resolvePalette(optionsPalette(options), defaultPalette)
    /\ escapeControlCodes = optionsEscapeControlCodes(options)
    /\ state = Fresh.state
    /\ csiArgs = Fresh.csiArgs
    /\ csiCommand = Fresh.csiCommand
    /\ style = Fresh.style
    /\ heap = Fresh.heap
    /\ published = Fresh.published
    /\ inSpan = Fresh.inSpan
    /\ out = Fresh.out
    /\ calls = Fresh.calls
    /\ controller = <<>>

EscapeSpec == EscapeInit /\ [][Next]_vars

(***************************************************************************)
(* Vocabulary of the properties of escaping.                               *)
(***************************************************************************)
\* the code of a character below 0x20, -1 for any other character
LowCode(c) ==
    LET ks == {k \in 1..Len(LowChars) : LowChars[k] = c}
    IN  IF ks = {} THEN -1 ELSE (CHOOSE k \in ks : TRUE) - 1

HexDigit ==
    <<"0", "1", "2", "3", "4", "5", "6", "7", "8", "9", "A", "B", "C", "D", "E", "F">>

\* the character U+2400+c, for c below 0x100
ControlPicture(c) == "\\u24" \o HexDigit[(c \div 16) + 1] \o HexDigit[(c % 16) + 1]

HasPicture(c) == LowCode(c) \in (0..7) \cup (14..31)

\* what one character of a text run becomes in the string output
CharOut(c, pictures) ==
    CASE c = "<" -> "&lt;"
      [] c = ">" -> "&gt;"
      [] c = "&" -> "&amp;"
      [] c = "'" -> "&#39;"
      [] c = "\"" -> "&quot;"
      [] pictures /\ HasPicture(c) -> ControlPicture(LowCode(c))
      [] OTHER -> c

RECURSIVE TextOutOf(_, _)
TextOutOf(t, pictures) ==
    IF t = <<>> THEN "" ELSE CharOut(Head(t), pictures) \o TextOutOf(Tail(t), pictures)

\* the output the first n log entries account for: escaped text runs, and
\* at each style change the closing tag of the open span and the opening
\* tag of the new one
RECURSIVE Markup(_)
Markup(n) ==
    IF n = 0 THEN ""
    ELSE Markup(n - 1) \o
         (CASE calls[n].op = "onText" -> TextOutOf(calls[n].t, escapeControlCodes)
            [] calls[n].op = "onStyleChange" ->
                (IF isEmpty(CurStyle(n - 1)) THEN "" ELSE "</span>")
                \o (IF isEmpty(calls[n].s) THEN ""
                    ELSE "<span " \o toCssStyle(calls[n].s) \o ">")
            [] OTHER -> "")

\* the number of strings the first n log entries enqueued
RECURSIVE Enqueued(_)
Enqueued(n) ==
    IF n = 0 THEN 0
    ELSE Enqueued(n - 1) +
         (CASE calls[n].op = "onText" -> 1
            [] calls[n].op = "onStyleChange" ->
                (IF isEmpty(CurStyle(n - 1)) THEN 0 ELSE 1)
                + (IF isEmpty(calls[n].s) THEN 0 ELSE 1)
            [] OTHER -> 0)

TextCalls == {k \in 1..Len(calls) : calls[k].op = "onText"}

\* the string the onText call logged at k enqueued
TextOut(k) == out[Enqueued(k)]

(***************************************************************************)
(* C21. Every text run SGRToStringTransformer writes has each < > & ' "    *)
(* replaced by &lt; &gt; &amp; &#39; &quot;, whether escapeControlCodes is *)
(* on or off, and the span tags stand between the escaped text runs where  *)
(* the SGR sequences stood.                                                *)
(***************************************************************************)
C21_HtmlEscaped ==
    /\ join(out) =
            Markup(Len(calls))
            \o (IF closed /\ ~isEmpty(CurStyle(Len(calls))) THEN "</span>" ELSE "")
    /\ \A k \in TextCalls :
        \A i \in 1..Len(TextOut(k)) :
            SubSeq(TextOut(k), i, i) \notin {"<", ">", "'", "\""}

\* ESC[1m " ESC[0m & with escapeControlCodes off, after the stream ended
C21_Witness ==
    /\ closed
    /\ ~escapeControlCodes
    /\ text = <<ESC, "[", "1", "m", "\"", ESC, "[", "0", "m", "&">>
    /\ join(out) = "<span style=\"font-weight:bolder;\">&quot;</span>&amp;"


(***************************************************************************)
(* C22. With escapeControlCodes enabled every character with code c in     *)
(* 0x00..0x07 or 0x0E..0x1F of an emitted text run is replaced by the      *)
(* character U+2400+c and the characters 0x08..0x0D are left as they are;  *)
(* with escapeControlCodes disabled or absent no control character is      *)
(* replaced.                                                               *)
(***************************************************************************)
C22_ControlPictures ==
    \A k \in TextCalls :
        /\ TextOut(k) =
                TextOutOf(calls[k].t,
                          "escapeControlCodes" \in DOMAIN options
                          /\ options.escapeControlCodes)
        /\ \A i \in 1..Len(calls[k].t) :
            LET c == LowCode(calls[k].t[i])
            IN  (Len(calls[k].t) = 1 /\ c >= 0) =>
                    TextOut(k) = IF escapeControlCodes /\ c \notin 8..13
                                 THEN ControlPicture(c)
                                 ELSE calls[k].t[1]

\* carriage return, < and bell in one text run with escapeControlCodes on
C22_Witness ==
    /\ escapeControlCodes
    /\ \E k \in TextCalls :
        /\ calls[k].t = <<"\\x0D", "<", "\\x07">>
        /\ TextOut(k) = "\\x0D&lt;\\u2407"


(***************************************************************************)
(* Palettes: one transformer constructed with a palette override and       *)
(* written a palette colour code, then a second sequence.                  *)
(***************************************************************************)
FullOverride ==
    [standard |->
        [black |-> "s0", red |-> "s1", green |-> "s2", yellow |-> "s3",
         blue |-> "s4", magenta |-> "s5", cyan |-> "s6", white |-> "s7"],
     bright |->
        [black |-> "b0", red |-> "b1", green |-> "b2", yellow |-> "b3",
         blue |-> "b4", magenta |-> "b5", cyan |-> "b6", white |-> "b7"]]

PaletteOptionSet ==
    {NoObject,
     [palette |-> NoObject],
     [palette |-> [standard |-> [magenta |-> "#a0a", cyan |-> "#0aa"]]],
     [palette |-> [bright |-> [red |-> Undefined, green |-> Null, blue |-> "blue"]]],
     [palette |-> [standard |-> NoObject, bright |-> [white |-> "\"><b>"]]],
     [palette |-> [standard |-> [black |-> ""]], escapeControlCodes |-> TRUE],
     [palette |-> FullOverride]}

PaletteCodes == (30..37) \cup (40..47) \cup (90..97) \cup (100..107)

SecondParameters == {Render(<<0>>), Render(<<39>>), Render(<<49>>), Render(<<1>>)}

PaletteInit ==
    /\ text = <<>>
    /\ offset = 0
    /\ closed = FALSE
    /\ options \in PaletteOptionSet
    /\ palette = resolvePalette(optionsPalette(options), defaultPalette)
    /\ escapeControlCodes = optionsEscapeControlCodes(options)
    /\ state = Fresh.state
    /\ csiArgs = Fresh.csiArgs
    /\ csiCommand = Fresh.csiCommand
    /\ style = Fresh.style
    /\ heap = Fresh.heap
    /\ published = Fresh.published
    /\ inSpan = Fresh.inSpan
    /\ out = Fresh.out
    /\ calls = Fresh.calls
    /\ controller = <<>>

FeedColor ==
    /\ Written = 0
    /\ \E code \in PaletteCodes : Write(SgrSequence(Dec(code)))

FeedSecond ==
    /\ Written = 1
    /\ \E bytes \in SecondParameters : Write(SgrSequence(bytes))

PaletteNext ==
    \/ FeedColor
    \/ FeedSecond

PaletteSpec == PaletteInit /\ [][PaletteNext]_vars

(***************************************************************************)
(* C23. Palette resolution: each of the 16 slots (8 standard, 8 bright) of *)
(* the resolved palette holds the value the override gives for it when     *)
(* that value is neither undefined nor null, and the built-in default      *)
(* otherwise; the palette, either group and any slot may be absent, and a  *)
(* slot that is not overridden keeps its default.                          *)
(***************************************************************************)
\* the value the options give for a slot, Undefined when they give none
Override(group, name) ==
    IF "palette" \notin DOMAIN options THEN Undefined
    ELSE IF group \notin DOMAIN options.palette THEN Undefined
    ELSE IF name \notin DOMAIN options.palette[group] THEN Undefined
    ELSE options.palette[group][name]

C23_PaletteResolution ==
    /\ DOMAIN palette = {"standard", "bright"}
    /\ \A group \in {"standard", "bright"} :
        /\ DOMAIN palette[group] = {ColorOrder[k] : k \in 1..8}
        /\ \A k \in 1..8 :
            palette[group][ColorOrder[k]] =
                IF Override(group, ColorOrder[k]) \in {Undefined, Null}
                THEN defaultPalette[group][ColorOrder[k]]
                ELSE Override(group, ColorOrder[k])
    /\ \A k \in SgrEntries :
        (k = 1 /\ ListOf(calls[k].t) = <<35>>) =>
            StyleAfter(k).color =
                IF Override("standard", "magenta") \in {Undefined, Null}
                THEN "#881798" ELSE Override("standard", "magenta")

\* an override with an undefined, a null and a given bright slot and no
\* standard group: ESC[94m takes the given blue
C23_Witness ==
    /\ Override("bright", "red") = Undefined
    /\ Override("bright", "green") = Null
    /\ palette.bright.red = "#e74856"
    /\ palette.bright.green = "#16c60c"
    /\ palette.standard.blue = "#0037da"
    /\ \E k \in SgrEntries : ListOf(calls[k].t) = <<94>> /\ Announced(k)
    /\ style.color = "blue"

(***************************************************************************)
(* C27. Colour strings go into the style attribute exactly as the palette  *)
(* holds them: an override value is neither escaped nor validated, so an   *)
(* override that contains a double quote or > stands verbatim inside the   *)
(* span tag of the string output.                                          *)
(***************************************************************************)
C27_ColorsVerbatim ==
    \A k \in StyleChanges :
        LET s == calls[k].s
        IN  (/\ ~isEmpty(s)
             /\ s.fontWeight = "" /\ s.fontStyle = ""
             /\ ~s.textDecorationUnderline /\ ~s.textDecorationLineThrough) =>
                out[Enqueued(k)] =
                    "<span style=\""
                    \o (IF s.color = "" THEN "" ELSE "color:" \o s.color \o ";")
                    \o (IF s.backgroundColor = "" THEN ""
                        ELSE "background-color:" \o s.backgroundColor \o ";")
                    \o "\">"

\* the bright white overridden with "><b> and ESC[97m written
C27_Witness ==
    /\ Override("bright", "white") = "\"><b>"
    /\ style.color = "\"><b>"
    /\ Len(out) > 0
    /\ out[Len(out)] = "<span style=\"color:\"><b>;\">"


(***************************************************************************)
(* C24. CSS serialization: toCssStyle writes only the fields that are not  *)
(* at their default, each as name:value; and always in the order           *)
(* font-weight, font-style, text-decoration, color, background-color,      *)
(* whatever the order the SGR codes came in; text-decoration is underline, *)
(* line-through, or "underline line-through" when both are set.            *)
(***************************************************************************)
Declaration(name, value) == IF value = "" THEN "" ELSE name \o ":" \o value \o ";"

Decoration(s) ==
    CASE s.textDecorationUnderline /\ s.textDecorationLineThrough ->
            "underline line-through"
      [] s.textDecorationUnderline /\ ~s.textDecorationLineThrough -> "underline"
      [] ~s.textDecorationUnderline /\ s.textDecorationLineThrough -> "line-through"
      [] OTHER -> ""

C24_CssSerialization ==
    \A k \in StyleChanges :
        LET s == calls[k].s
        IN  ~isEmpty(s) =>
                out[Enqueued(k)] =
                    "<span style=\""
                    \o Declaration("font-weight", s.fontWeight)
                    \o Declaration("font-style", s.fontStyle)
                    \o Declaration("text-decoration", Decoration(s))
                    \o Declaration("color", s.color)
                    \o Declaration("background-color", s.backgroundColor)
                    \o "\">"

\* ESC[9;4m from the empty Style: the strikethrough code came before the
\* underline code
C24_Witness ==
    \E k \in SgrEntries :
        /\ ListOf(calls[k].t) = <<9, 4>>
        /\ isEmpty(StyleBefore(k))
        /\ Announced(k)
        /\ k + 1 = Len(calls)
        /\ out[Len(out)] = "<span style=\"text-decoration:underline line-through;\">"


(***************************************************************************)
(* Recovery: the stream of Spec over texts made of a sequence the parser   *)
(* rejects and a well-formed SGR sequence after it.                        *)
(***************************************************************************)
RejectedSequences ==
    {LongCsi \o <<"1">>, LongCsi \o <<"1", "m">>,
     SgrSequence(Render(<<38>>)), SgrSequence(Render(<<38, 5, 256>>)),
     SgrSequence(Render(<<1, 48, 2, 1>>)), SgrSequence(Render(<<38, 7, 1>>))}

LaterParameters == {Render(<<0, 3, 32>>), Render(<<1>>)}

RecoverInputs ==
    {bad \o SgrSequence(good) : bad \in RejectedSequences, good \in LaterParameters}

RecoverInit ==
    /\ text \in RecoverInputs
    /\ offset = 0
    /\ closed = FALSE
    /\ options \in OptionSet
    /\ palette = resolvePalette(optionsPalette(options), defaultPalette)
    /\ escapeControlCodes = optionsEscapeControlCodes(options)
    /\ state = Fresh.state
    /\ csiArgs = Fresh.csiArgs
    /\ csiCommand = Fresh.csiCommand
    /\ style = Fresh.style
    /\ heap = Fresh.heap
    /\ published = Fresh.published
    /\ inSpan = Fresh.inSpan
    /\ out = Fresh.out
    /\ calls = Fresh.calls
    /\ controller = <<>>

RecoverSpec == RecoverInit /\ [][Next]_vars

(***************************************************************************)
(* C25. Malformed input never aborts the stream: after an oversized CSI    *)
(* sequence or a rejected 38/48 sub-sequence the parser is in state Text   *)
(* with an empty buffer, and a well-formed SGR sequence later in the same  *)
(* stream is recognised and applied; no input is lost on the way.          *)
(***************************************************************************)
C25_RecoversAfterMalformed ==
    \A bad \in RejectedSequences : \A good \in LaterParameters :
        text = bad \o SgrSequence(good) =>
            /\ offset = Len(bad) =>
                    state = "Text" /\ csiArgs = <<>> /\ csiCommand = <<>>
            /\ offset = Len(text) =>
                /\ state = "Text" /\ csiArgs = <<>> /\ csiCommand = <<>>
                /\ Reassemble(calls) = text
                /\ \E k \in SgrEntries :
                    /\ calls[k].t = good
                    /\ \A n \in SgrEntries : n <= k
                    /\ k >= Len(calls) - 1
                    /\ style = Applied(StyleBefore(k), ListOf(good))
                    /\ Announced(k) <=> Differs(style, StyleBefore(k))

\* the oversized list ended by m, then ESC[0;3;32m, all delivered
C25_Witness ==
    /\ text = LongCsi \o <<"1", "m">> \o SgrSequence(Render(<<0, 3, 32>>))
    /\ offset = Len(text)
    /\ Cardinality(SgrEntries) = 1
    /\ style = [Cleared EXCEPT !.fontStyle = "italic", !.color = palette.standard.green]
    /\ inSpan


(***************************************************************************)
(* C26. A Style passed to onStyleChange is never modified afterwards:      *)
(* every SGR command assigns to a fresh copy of the current Style, and the *)
(* current Style is only replaced by that copy, never edited in place,     *)
(* over any sequence of later SGR commands.                                *)
(***************************************************************************)
\* the log entry of the j-th onStyleChange call
StyleChangeAt(j) ==
    CHOOSE k \in StyleChanges : Cardinality({n \in StyleChanges : n <= k}) = j

C26_PublishedStyleImmutable ==
    /\ Len(published) = Cardinality(StyleChanges)
    /\ \A j \in 1..Len(published) :
        /\ published[j] \in 2..Len(heap)
        /\ heap[published[j]] = calls[StyleChangeAt(j)].s
        /\ \A i \in 1..(j - 1) : published[i] < published[j]
    /\ Len(heap) = 1 + Cardinality(SgrEntries)
    /\ heap[1] = NewStyle
    /\ style = heap[styleObject(This)]

\* two Styles were passed to onStyleChange and a third sequence was
\* interpreted; the first Style passed differs from the current one and
\* still has the fields it was announced with
C26_Witness ==
    /\ Len(published) = 2
    /\ Cardinality(SgrEntries) = 3
    /\ heap[published[1]] # style
    /\ ~isEmpty(heap[published[1]])
    /\ heap[published[1]] = calls[StyleChangeAt(1)].s


(***************************************************************************)
(* SGRToElementSink. It is a Parser like the transformer, so the parser    *)
(* makes it the same onText and onStyleChange calls; the children of its   *)
(* element are the spans those calls leave.                                *)
(***************************************************************************)
\* the style of a span just created
NewDeclaration ==
    [fontWeight |-> "", fontStyle |-> "", textDecoration |-> "",
     color |-> "", backgroundColor |-> ""]

\* document.createElement("span")
createSpan == [tagName |-> "span", style |-> NewDeclaration, childNodes |-> <<>>]

\* Style.applyTo, as the declaration it leaves
applyTo(s) ==
    [fontWeight |-> s.fontWeight, fontStyle |-> s.fontStyle,
     textDecoration |-> textDecoration(s),
     color |-> s.color, backgroundColor |-> s.backgroundColor]

\* new Text(data)
newText(data) == [nodeName |-> "#text", data |-> data]

\* the children of the element after the constructor: #currentSpan alone
SGRToElementSink_constructor == <<createSpan>>

\* onText of the sink rewriting the text as the string output does
SGRToElementSink_onText_asHtml(children, t) ==
    [children EXCEPT ![Len(children)].childNodes = Append(@, newText(escaper(t)))]

\* #currentSpan is the span appended last
SGRToElementSink_onText(children, t) ==
    [children EXCEPT ![Len(children)].childNodes =
        Append(@, newText(IF escapeControlCodes THEN escapeControl(t)
                          ELSE replaceAll(t, {})))]

\* onStyleChange of the sink creating no span for the empty Style, as the
\* string output opens none: the text goes on into the span before
SGRToElementSink_onStyleChange_skipsEmpty(children, s) ==
    IF isEmpty(s) THEN children
    ELSE Append(children, [createSpan EXCEPT !.style = applyTo(s)])

SGRToElementSink_onStyleChange(children, s) ==
    Append(children, [createSpan EXCEPT !.style = applyTo(s)])

\* the children of the element after the first n calls of the parser log
RECURSIVE element(_)
element(n) ==
    IF n = 0 THEN SGRToElementSink_constructor
    ELSE CASE calls[n].op = "onText" ->
                SGRToElementSink_onText(element(n - 1), calls[n].t)
           [] calls[n].op = "onStyleChange" ->
                SGRToElementSink_onStyleChange(element(n - 1), calls[n].s)
           [] OTHER -> element(n - 1)

(***************************************************************************)
(* C28. SGRToElementSink never turns input text into markup: each text run *)
(* becomes the content of one Text node whose characters are those of the  *)
(* run (with control pictures when escapeControlCodes is on), so < > & '   *)
(* and " create no element and are not rewritten as entities.              *)
(***************************************************************************)
\* the characters of a text run as the Text node holds them
RECURSIVE PlainData(_)
PlainData(t) ==
    IF t = <<>> THEN ""
    ELSE (IF escapeControlCodes /\ HasPicture(Head(t))
          THEN ControlPicture(LowCode(Head(t))) ELSE Head(t))
         \o PlainData(Tail(t))

\* the child nodes of all spans, in document order
RECURSIVE NodesOf(_)
NodesOf(children) ==
    IF children = <<>> THEN <<>>
    ELSE Head(children).childNodes \o NodesOf(Tail(children))

\* the text runs of the first n log entries, as Text nodes hold them
RECURSIVE PlainRuns(_)
PlainRuns(n) ==
    IF n = 0 THEN <<>>
    ELSE IF calls[n].op = "onText" THEN Append(PlainRuns(n - 1), PlainData(calls[n].t))
    ELSE PlainRuns(n - 1)

C28_ElementSinkTextOnly ==
    LET children == element(Len(calls))
        nodes == NodesOf(children)
    IN  /\ Len(children) = 1 + Cardinality(StyleChanges)
        /\ \A k \in 1..Len(children) : children[k].tagName = "span"
        /\ \A j \in 1..Len(nodes) : nodes[j].nodeName = "#text"
        /\ [j \in 1..Len(nodes) |-> nodes[j].data] = PlainRuns(Len(calls))

\* the text run a & < bell with escapeControlCodes on: one Text node, the
\* bell as its picture, & and < as they are
C28_Witness ==
    /\ escapeControlCodes
    /\ \E k \in TextCalls : calls[k].t = <<"a", "&", "<", "\\x07">>
    /\ \E j \in 1..Len(NodesOf(element(Len(calls)))) :
        NodesOf(element(Len(calls)))[j].data = "a&<\\u2407"
    /\ Len(element(Len(calls))) = 1


(***************************************************************************)
(* C29. In every reachable state the CSI parameter buffer holds only the   *)
(* characters 0-9 and ';', so the check of handleSgr that the buffer       *)
(* matches ^[0-9;]*$ never fails: no sequence ended by m is ever dumped as *)
(* text.                                                                   *)
(***************************************************************************)
C29_BufferOnlyParameterBytes ==
    /\ \A i \in 1..Len(csiArgs) :
        csiArgs[i] \in {"0", "1", "2", "3", "4", "5", "6", "7", "8", "9", ";"}
    /\ \A k \in TextCalls :
        LET t == calls[k].t
        IN  ~(Len(t) >= 3 /\ t[1] = ESC /\ t[2] = "[" /\ t[Len(t)] = "m")
    /\ \A k \in SgrEntries :
        \A i \in 1..Len(calls[k].t) :
            calls[k].t[i] \in {"0", "1", "2", "3", "4", "5", "6", "7", "8", "9", ";"}

\* the sequence ESC[;3m was interpreted by handleSgr
C29_Witness ==
    /\ state = "Text"
    /\ \E k \in SgrEntries : calls[k].t = <<";", "3">> /\ k >= Len(calls) - 1

(***************************************************************************)
(* C30. Whenever the parser is not in state Csi the parameter buffer is    *)
(* empty, and whenever push or finalize has returned the pending final     *)
(* byte csiCommand is empty: every way out of Csi (SGR, unknown command,   *)
(* oversize abort, finalize) clears both and leaves Csi.                   *)
(***************************************************************************)
C30_BufferEmptyOutsideCsi ==
    /\ state # "Csi" => csiArgs = <<>>
    /\ csiCommand = <<>>
    /\ closed => state # "Csi"

\* finalize dumped the unterminated sequence ESC[;
C30_Witness ==
    /\ closed
    /\ state = "Text"
    /\ csiArgs = <<>>
    /\ Len(calls) > 0
    /\ calls[Len(calls)] = Call("onText", <<ESC, "[", ";">>, NewStyle)


(***************************************************************************)
(* Sequences that are passed through: the stream of Spec over texts that   *)
(* hold an ESC that opens no CSI sequence, a CSI sequence with a final     *)
(* byte other than m, an oversized one, or one the end of the stream cuts  *)
(* short, after some text or an SGR sequence and before some more.         *)
(***************************************************************************)
PassPrefixes == {<<>>, <<"a">>, <<ESC, "[", "1", "m">>}

PassSequences ==
    {<<ESC>>, <<ESC, "K">>, <<ESC, ESC>>, <<ESC, "[">>, <<ESC, "[", "3">>,
     <<ESC, "[", "K">>, <<ESC, "[", "1", ";", "2", "K">>, <<ESC, "[", "1", "<">>,
     <<ESC, "[", "\\x07">>, <<ESC, "[", "1", ESC>>,
     sliceFrom(LongCsi, 1) \o <<"1">>}

PassSuffixes == {<<>>, <<"b">>, <<"[", "0", "m">>, <<ESC, "[", "0", "m">>}

PassInputs ==
    {pre \o seq \o suf :
        pre \in PassPrefixes, seq \in PassSequences, suf \in PassSuffixes}

PassInit ==
    /\ text \in PassInputs
    /\ offset = 0
    /\ closed = FALSE
    /\ options \in EscapeOptionSet
    /\ palette = resolvePalette(optionsPalette(options), defaultPalette)
    /\ escapeControlCodes = optionsEscapeControlCodes(options)
    /\ state = Fresh.state
    /\ csiArgs = Fresh.csiArgs
    /\ csiCommand = Fresh.csiCommand
    /\ style = Fresh.style
    /\ heap = Fresh.heap
    /\ published = Fresh.published
    /\ inSpan = Fresh.inSpan
    /\ out = Fresh.out
    /\ calls = Fresh.calls
    /\ controller = <<>>

PassSpec == PassInit /\ [][Next]_vars

(***************************************************************************)
(* C31. push terminates on every chunk, in every parser state, and returns *)
(* only when the whole chunk is consumed: each iteration of its loop       *)
(* either consumes at least one character, or moves from Esc or Csi to     *)
(* Text without consuming, and such an iteration is always followed by one *)
(* in Text that consumes at least one character.  (So a chunk of n         *)
(* characters takes at most 2n iterations.)                                *)
(***************************************************************************)
\* the iterations of the loop of push on a chunk, at most fuel of them: the
\* state each starts and ends in, the length of the chunk before and after
\* it, and the parser it leaves
RECURSIVE Iterations(_, _, _)
Iterations(p, chunk, fuel) ==
    IF Len(chunk) = 0 \/ fuel = 0 THEN <<>>
    ELSE LET r == CASE p.state = "Text" -> handleText(p, chunk)
                    [] p.state = "Esc" -> handleEsc(p, chunk)
                    [] p.state = "Csi" -> handleCsi(p, chunk)
         IN  <<[from |-> p.state, to |-> r.this.state,
                before |-> Len(chunk), after |-> Len(r.chunk), this |-> r.this]>>
             \o Iterations(r.this, r.chunk, fuel - 1)

Consumes(step) == step.after < step.before

C31_PushProgress ==
    [][offset' > offset =>
        LET chunk == slice(text, offset, offset')
            steps == Iterations(This, chunk, 2 * Len(chunk))
        IN  /\ steps # <<>>
            /\ steps[Len(steps)].after = 0
            /\ steps[Len(steps)].this = This'
            /\ \A i \in 1..Len(steps) :
                \/ Consumes(steps[i])
                \/ /\ steps[i].from \in {"Esc", "Csi"}
                   /\ steps[i].to = "Text"
                   /\ steps[i].after = steps[i].before
                   /\ i < Len(steps)
                   /\ steps[i + 1].from = "Text"
                   /\ Consumes(steps[i + 1])]_vars

\* a text with an ESC that opens nothing and an oversized parameter list,
\* delivered in chunks that began in each of the three states
C31_Witness ==
    /\ offset = Len(text)
    /\ ~closed
    /\ text = <<"a">> \o sliceFrom(LongCsi, 1) \o <<"1">> \o <<ESC, "[", "0", "m">>
    /\ \E k \in 1..Len(calls) : IsBareCsi(calls[k]) /\ Len(calls[k].t) = 2 + csiArgLenLimit
    /\ \E k \in SgrEntries : calls[k].t = <<"0">>
    /\ Len(calls) > 4

(***************************************************************************)
(* C32. In state Csi the first character outside [0-9;] is the final byte  *)
(* and is consumed whatever it is, ESC included: ESC [, the parameter      *)
(* bytes and that character go to onText as one run.  For the input        *)
(* ESC[1 ESC[0m the run is ESC[1 ESC, the characters [0m after it are      *)
(* plain text, and no Style change occurs.                                 *)
(***************************************************************************)
\* the sequences of PassSequences that are ESC [, parameter bytes and a
\* final byte other than m
UnknownCsiSequences ==
    {seq \in PassSequences :
        /\ Len(seq) >= 3
        /\ seq[2] = "["
        /\ seq[Len(seq)] \notin ParamClass
        /\ AllParams(slice(seq, 2, Len(seq) - 1))}

\* all entries of a part of the log are onText calls
OnlyText(cs) == \A i \in 1..Len(cs) : cs[i].op = "onText"

C32_FinalByteConsumed ==
    \A pre \in PassPrefixes : \A seq \in UnknownCsiSequences :
      \A suf \in PassSuffixes :
        text = pre \o seq \o suf /\ offset >= Len(pre) + Len(seq) =>
            \E k \in TextCalls :
                /\ calls[k].t = seq
                /\ Reassemble(SubSeq(calls, 1, k)) = pre \o seq
                /\ \A j \in SgrEntries \cup StyleChanges : j < k => pre = <<ESC, "[", "1", "m">>
                /\ seq = <<ESC, "[", "1", ESC>> /\ suf = <<"[", "0", "m">> =>
                    /\ OnlyText(LogAfter(k))
                    /\ Reassemble(LogAfter(k)) = slice(suf, 0, offset - Len(pre) - Len(seq))
                    /\ style = CurStyle(k)
                    /\ state = "Text"

\* ESC[1 ESC[0m delivered whole: one run ESC[1 ESC, then [0m as text, the
\* Style still the initial one
C32_Witness ==
    /\ text = <<ESC, "[", "1", ESC, "[", "0", "m">>
    /\ offset = Len(text)
    /\ \E k \in TextCalls :
        /\ calls[k].t = <<ESC, "[", "1", ESC>>
        /\ Reassemble(LogAfter(k)) = <<"[", "0", "m">>
    /\ StyleChanges = {}
    /\ SgrEntries = {}
    /\ style = NewStyle
    /\ ~inSpan

(***************************************************************************)
(* C33. Only a recognised SGR sequence changes the current Style or calls  *)
(* onStyleChange: a step in which handleSgr interpreted nothing (plain     *)
(* text, an ESC not followed by [, a CSI sequence with another final byte, *)
(* an oversized one) and the end of the stream leave the Style and the     *)
(* number of onStyleChange calls as they are; each onStyleChange call      *)
(* comes right after a sequence handleSgr interpreted, and the current     *)
(* Style is the one last passed to onStyleChange.                          *)
(***************************************************************************)
\* the log entries a step adds
Added == SubSeq(calls', Len(calls) + 1, Len(calls'))

C33_OnlySgrChangesStyle ==
    [][/\ (\A i \in 1..Len(Added) : Added[i].op # "handleSgr") =>
            /\ style' = style
            /\ OnlyText(Added)
       /\ closed' /\ ~closed => style' = style /\ OnlyText(Added)
       /\ \A i \in 1..Len(Added) :
            Added[i].op = "onStyleChange" => i > 1 /\ Added[i - 1].op = "handleSgr"
       /\ LET changes == {i \in 1..Len(Added) : Added[i].op = "onStyleChange"}
          IN  style' = IF changes = {} THEN style
                       ELSE Added[CHOOSE i \in changes : \A j \in changes : j <= i].s
      ]_vars

\* bold was set, then ESC[1;2K, ESC[ BEL or an ESC alone passed through and
\* the stream ended: still bold, still one onStyleChange call
C33_Witness ==
    /\ closed
    /\ \E seq \in {<<ESC, "[", "1", ";", "2", "K">>, <<ESC, "K">>} :
        text = <<ESC, "[", "1", "m">> \o seq \o <<"b">>
    /\ style = [NewStyle EXCEPT !.fontWeight = "bolder"]
    /\ Cardinality(StyleChanges) = 1
    /\ Cardinality(TextCalls) >= 3

(***************************************************************************)
(* C34. Between the calls of transform, before flush, a span is open       *)
(* exactly when the current Style is not empty, and the tag that opened it *)
(* carries the CSS serialization of the current Style; a change to the     *)
(* empty Style closes the open span and opens none (as many spans were     *)
(* opened as non-empty Styles were passed to onStyleChange).               *)
(***************************************************************************)
\* the indices of the tags among the strings enqueued
Tags == {k \in 1..Len(out) : IsSpanOpen(out[k]) \/ IsSpanClose(out[k])}

LastTag == CHOOSE k \in Tags : \A j \in Tags : j <= k

C34_SpanTracksStyle ==
    ~closed =>
        /\ inSpan <=> ~isEmpty(style)
        /\ inSpan => Tags # {} /\ out[LastTag] = "<span " \o toCssStyle(style) \o ">"
        /\ ~inSpan => Tags = {} \/ out[LastTag] = "</span>"
        /\ Cardinality({k \in Tags : IsSpanOpen(out[k])})
            = Cardinality({k \in StyleChanges : ~isEmpty(calls[k].s)})

\* a Style with several fields was set and then cleared by ESC[1;0m: the
\* span opened first is closed, none is open
C34_Witness ==
    /\ ~closed
    /\ Written = 2
    /\ Cardinality(StyleChanges) = 2
    /\ isEmpty(style)
    /\ ~inSpan
    /\ Cardinality(Tags) = 2
    /\ out[LastTag] = "</span>"
    /\ \E k \in SgrEntries : calls[k].t = Render(<<1, 0>>)

(***************************************************************************)
(* C35. finalize leaves the parser in state Text with an empty parameter   *)
(* buffer, from every state: a second finalize passes no further text to   *)
(* onText, and a chunk pushed after finalize is processed as by a parser   *)
(* in its initial state Text with an empty buffer.                         *)
(***************************************************************************)
\* chunks pushed after the end of the stream
LateChunks == {<<"a">>, <<"[", "1", "m">>, <<ESC, "[", "3", "m">>}

\* the parser put back to the state and buffer it is constructed with
Restarted ==
    [This EXCEPT !.state = Fresh.state, !.csiArgs = Fresh.csiArgs,
                 !.csiCommand = Fresh.csiCommand]

C35_FinalizeResets ==
    closed =>
        /\ state = "Text"
        /\ csiArgs = <<>>
        /\ finalize(This).calls = calls
        /\ \A chunk \in LateChunks : push(This, chunk) = push(Restarted, chunk)

(***************************************************************************)
(* C36. The ESC of every sequence that is passed through (an ESC not       *)
(* followed by [, a CSI sequence with a final byte other than m, an        *)
(* oversized one, one the end of the stream cuts short) is written as      *)
(* U+241B when escapeControlCodes is on and as 0x1B when it is off.        *)
(* As claimed, the rest of the sequence is written unchanged.              *)
(* As amended, the rest is escaped like any other text: [ and the          *)
(* parameter bytes are unchanged, and so is the final byte unless it is    *)
(* one of < > & ' " (written as its entity) or, with the option on, a      *)
(* control character with a picture (written as its picture).              *)
(***************************************************************************)
\* the onText calls of the log whose text starts with ESC: handleText passes
\* no ESC on, so these are the sequences passed through
PassedThrough == {k \in TextCalls : calls[k].t # <<>> /\ calls[k].t[1] = ESC}

\* the characters of a text as they are
RECURSIVE RawOut(_)
RawOut(t) == IF t = <<>> THEN "" ELSE Head(t) \o RawOut(Tail(t))

EscOut == IF escapeControlCodes THEN "\\u241B" ELSE "\\x1B"

\* the claim as made
C36_RestUnchanged ==
    \A k \in PassedThrough : TextOut(k) = EscOut \o RawOut(Tail(calls[k].t))

\* the claim as amended
C36_RestEscaped ==
    /\ closed /\ EscCount(text) > Cardinality(SgrEntries) => PassedThrough # {}
    /\ \A k \in PassedThrough :
        LET rest == Tail(calls[k].t)
        IN  /\ TextOut(k) = EscOut \o TextOutOf(rest, escapeControlCodes)
            /\ rest # <<>> =>
                /\ rest[1] = "["
                /\ AllParams(slice(rest, 1, Len(rest) - 1))
                /\ TextOut(k) =
                    EscOut \o RawOut(slice(rest, 0, Len(rest) - 1))
                    \o CharOut(rest[Len(rest)], escapeControlCodes)

\* ESC[1< was passed through with the option on: the picture of ESC, [1 as
\* it is, the entity of <
C36_Witness ==
    /\ escapeControlCodes
    /\ closed
    /\ \E k \in PassedThrough :
        /\ calls[k].t = <<ESC, "[", "1", "<">>
        /\ TextOut(k) = "\\u241B[1&lt;"
    /\ Len(text) > 4

(***************************************************************************)
(* C37. SGRToElementSink appends one span to the parent at construction    *)
(* and one more span at each onStyleChange call, for the empty Style too;  *)
(* each text run is appended to the span created last, and the spans       *)
(* before the last are never modified again.                               *)
(***************************************************************************)
\* the children but the last
Earlier(children) == SubSeq(children, 1, Len(children) - 1)

Last(children) == children[Len(children)]

C37_OneSpanPerStyleChange ==
    /\ Len(element(0)) = 1
    /\ element(0)[1] = createSpan
    /\ \A n \in 1..Len(calls) :
        LET before == element(n - 1)
            after == element(n)
        IN  CASE calls[n].op = "onStyleChange" ->
                    /\ Len(after) = Len(before) + 1
                    /\ Earlier(after) = before
                    /\ Last(after).tagName = "span"
                    /\ Last(after).childNodes = <<>>
                    /\ Last(after).style = applyTo(calls[n].s)
              [] calls[n].op = "onText" ->
                    /\ Len(after) = Len(before)
                    /\ Earlier(after) = Earlier(before)
                    /\ Last(after).style = Last(before).style
                    /\ Len(Last(after).childNodes) = Len(Last(before).childNodes) + 1
                    /\ Earlier(Last(after).childNodes) = Last(before).childNodes
                    /\ Last(Last(after).childNodes).nodeName = "#text"
              [] OTHER -> after = before

\* bold, a character, reset, a character: three spans, the last one for the
\* empty Style, the second and the third with text
C37_Witness ==
    LET children == element(Len(calls))
    IN  /\ closed
        /\ Len(children) = 3
        /\ children[2].style = [NewDeclaration EXCEPT !.fontWeight = "bolder"]
        /\ children[3].style = NewDeclaration
        /\ \E j \in 1..Len(children[2].childNodes) : children[2].childNodes[j].data = "<"
        /\ \E j \in 1..Len(children[3].childNodes) : children[3].childNodes[j].data = "&"


(***************************************************************************)
(* StringChunkSource on its own: a ReadableStream over the source calls    *)
(* pull while it wants more and is not closed; what pull does to the       *)
(* controller is recorded call by call.                                    *)
(***************************************************************************)
\* longest list of segments a text of the source is made of
MaxSourceSegs == 3

SourceSegments == {<<"a">>, <<ESC, "[">>, <<"1", "m">>}

SourceTexts == {concatAll(xs) : xs \in SegLists(SourceSegments, MaxSourceSegs)}

\* a call on the controller: close(), or enqueue(chunk)
ControllerCall(op, chunk) == [op |-> op, chunk |-> chunk]

\* controller.desiredSize: <<>> is null, <<n>> the number n
NullSize == <<>>

\* the fields of the source and the calls made on its controller
Source == [text |-> text, offset |-> offset, controller |-> controller]

\* pull enqueueing the text from its start up to the new offset
pull_sliceFromStart(src, desiredSize) ==
    LET ended == src.offset >= Len(src.text)
        shut == IF ended
                THEN [src EXCEPT !.controller = Append(@, ControllerCall("close", <<>>))]
                ELSE src
        size == desiredSize
    IN  IF size = NullSize
        THEN [shut EXCEPT
                !.controller = Append(@, ControllerCall("enqueue", src.text)),
                !.offset = Len(src.text)]
        ELSE LET end == Min(src.offset + size[1], Len(src.text))
             IN  [shut EXCEPT
                    !.controller =
                        Append(@, ControllerCall("enqueue", slice(src.text, 0, end))),
                    !.offset = end]

\* desiredSize is what controller.desiredSize holds when pull reads it, after
\* the close() of the same call if there was one.  Nothing returns after
\* close(): the enqueue call that follows it is made (the closed controller
\* rejects it, and the assignment after it would leave offset as it is)
pull(src, desiredSize) ==
    LET ended == src.offset >= Len(src.text)
        shut == IF ended
                THEN [src EXCEPT !.controller = Append(@, ControllerCall("close", <<>>))]
                ELSE src
        size == desiredSize
    IN  IF size = NullSize
        THEN [shut EXCEPT
                !.controller =
                    Append(@, ControllerCall("enqueue", sliceFrom(src.text, src.offset))),
                !.offset = Len(src.text)]
        ELSE LET end == Min(src.offset + size[1], Len(src.text))
             IN  [shut EXCEPT
                    !.controller =
                        Append(@, ControllerCall("enqueue",
                                                 slice(src.text, src.offset, end))),
                    !.offset = end]

\* close() was called on the controller
SourceClosed == \E k \in 1..Len(controller) : controller[k].op = "close"

SourceInit ==
    /\ text \in SourceTexts
    /\ offset = 0
    /\ closed = FALSE
    /\ options = NoObject
    /\ palette = resolvePalette(optionsPalette(options), defaultPalette)
    /\ escapeControlCodes = optionsEscapeControlCodes(options)
    /\ state = Fresh.state
    /\ csiArgs = Fresh.csiArgs
    /\ csiCommand = Fresh.csiCommand
    /\ style = Fresh.style
    /\ heap = Fresh.heap
    /\ published = Fresh.published
    /\ inSpan = Fresh.inSpan
    /\ out = Fresh.out
    /\ calls = Fresh.calls
    /\ controller = <<>>

\* the stream calls pull only while it is not closed and wants more: the
\* desiredSize pull reads is positive or null, or 0 once its own close()
\* has closed the stream
Pull(desiredSize) ==
    /\ ~SourceClosed
    /\ desiredSize = <<0>> => offset >= Len(text)
    /\ LET src == pull(Source, desiredSize)
       IN  /\ offset' = src.offset
           /\ controller' = src.controller
    /\ UNCHANGED <<text, closed, options, palette, escapeControlCodes, state, csiArgs,
                   csiCommand, style, heap, published, inSpan, out, calls>>

SourceNext ==
    \/ \E size \in 0..MaxChunk : Pull(<<size>>)
    \/ Pull(NullSize)

SourceSpec == SourceInit /\ [][SourceNext]_vars

(***************************************************************************)
(* C38. StringChunkSource delivers its text once and in order: with every  *)
(* pull reading a desiredSize that is null or positive (or 0 after its own *)
(* close), the chunks enqueued one after the other are consecutive slices  *)
(* of the text that do not overlap, together they are the text up to       *)
(* offset, and the whole text once the controller is closed; offset never  *)
(* decreases and never exceeds the length of the text.                     *)
(***************************************************************************)
\* the chunks of the enqueue calls among the first n calls, in order
RECURSIVE EnqueuedChunks(_)
EnqueuedChunks(n) ==
    IF n = 0 THEN <<>>
    ELSE IF controller[n].op = "enqueue"
         THEN Append(EnqueuedChunks(n - 1), controller[n].chunk)
         ELSE EnqueuedChunks(n - 1)

\* the k-th chunk is the slice of the text that starts where the chunks
\* before it end
ConsecutiveSlices ==
    LET chunks == EnqueuedChunks(Len(controller))
    IN  /\ \A k \in 1..Len(chunks) :
            LET start == Len(concatAll(SubSeq(chunks, 1, k - 1)))
            IN  /\ start + Len(chunks[k]) <= Len(text)
                /\ chunks[k] = slice(text, start, start + Len(chunks[k]))
        /\ Len(concatAll(chunks)) = offset
        /\ SourceClosed => concatAll(chunks) = text

C38_DeliversTextOnce ==
    [][/\ offset' >= offset
       /\ offset' <= Len(text')
       /\ ConsecutiveSlices']_vars

\* a text of five characters delivered in four chunks of different sizes,
\* the controller closed
C38_Witness ==
    /\ SourceClosed
    /\ offset = Len(text)
    /\ text = <<"a", ESC, "[", "1", "m">>
    /\ Len(EnqueuedChunks(Len(controller))) > 4
    /\ \E k \in 1..Len(controller) : Len(controller[k].chunk) = 1
    /\ \E k \in 1..Len(controller) : Len(controller[k].chunk) = 2

(***************************************************************************)
(* C39. pull closes the controller exactly when offset has reached the     *)
(* length of the text, and a pull that closes the controller makes no      *)
(* enqueue call after the close.                                           *)
(***************************************************************************)
C39_NoEnqueueAfterClose ==
    /\ SourceClosed => offset = Len(text)
    /\ \A k \in 1..Len(controller) :
        controller[k].op = "close" =>
            /\ Len(concatAll(EnqueuedChunks(k))) = Len(text)
            /\ \A j \in (k + 1)..Len(controller) : controller[j].op # "enqueue"

(***************************************************************************)
(* C40. An empty sub-parameter after 38 or 48 is read as 0 like any other  *)
(* empty field: ESC[38;5;m sets the foreground to black of the standard    *)
(* palette, ESC[38;2;;;m sets it to rgb(0,0,0), and ESC[38;;m is rejected  *)
(* for the unknown colorspace 0, not for a missing colorspace (48 does the *)
(* same to the background).                                                *)
(***************************************************************************)
\* the selector a parameter list starts with
SelectorOf(t) == IF slice(t, 0, 2) = <<"3", "8">> THEN 38 ELSE 48

C40_EmptySubParameterIsZero ==
    \A k \in SgrEntries :
        LET t == calls[k].t
            sel == SelectorOf(t)
            rest == sliceFrom(t, 2)
            expect(c) == StyleAfter(k) = WithColor(StyleBefore(k), sel, c)
            message == parseCustomColorError(sgrParameters(t), 0)
        IN  Len(t) >= 2 /\ slice(t, 0, 2) \in {<<"3", "8">>, <<"4", "8">>} =>
            /\ rest = <<";", "5", ";">> =>
                /\ expect(palette.standard.black)
                /\ sgrParameters(t) = <<sel, 5, 0>>
                /\ message = ""
            /\ rest = <<";", "2", ";", ";", ";">> =>
                /\ expect("rgb(0,0,0)")
                /\ sgrParameters(t) = <<sel, 2, 0, 0, 0>>
                /\ message = ""
            /\ rest \in {<<";", ";">>, <<";">>} =>
                /\ StyleAfter(k) = StyleBefore(k)
                /\ sgrParameters(t)[2] = 0
                /\ message = "[sgrp]: Unknown colorspace 0 after SGR " \o ToString(sel)
            /\ rest = <<>> =>
                /\ StyleAfter(k) = StyleBefore(k)
                /\ message = "[sgrp]: Missing colorspace parameter (2 or 5) after "
                             \o ToString(sel)

\* a red foreground was replaced by rgb(0,0,0) through ESC[38;2;;;m
C40_Witness ==
    /\ Written = 2
    /\ \E k \in SgrEntries :
        /\ calls[k].t = <<"3", "8", ";", "2", ";", ";", ";">>
        /\ StyleBefore(k).color = palette.standard.red
        /\ Announced(k)
    /\ style.color = "rgb(0,0,0)"
    /\ style.backgroundColor = palette.standard.green

====
